---- MODULE Spec2Model ----
(***************************************************************************)
(* Authentication core of web-app-boilerplate-server: issuance, gate,      *)
(* rotation and revocation of JWT access/refresh tokens (package user and  *)
(* package user/delivery).  Handlers are modelled at the granularity of    *)
(* their store round trips, so that concurrent requests interleave where   *)
(* the Go handlers can.                                                    *)
(*                                                                         *)
(* Time is a wall clock counted in ticks; TicksPerSecond ticks make one    *)
(* second.  time.Time values (Login.ExpiresAt, User.LoggedOutAt) keep the  *)
(* tick, while the JWT claims hold t.Unix(), the whole second.             *)
(***************************************************************************)
EXTENDS Integers, FiniteSets, Sequences, TLC

\* ---------------------------------------------------------------- bounds
MaxTime == 4
MaxReq == 3
MaxFail == 1
TicksPerSecond == 3
HourSeconds == 1
MaxRows == 2

\* ------------------------------------------------------- configuration
accessKey == "access-key"
refreshKey == "refresh-key"
\* env.GetIntSafe defaults; the refresh lifetime is scaled down so that a
\* session outlives MaxTime in no run
accessExpirationHours == 1
refreshExpirationHours == 1

Users == {1, 2}
Slots == {1, 2}
UnknownUserID == Cardinality(Users) + 1
Nil == -1
HMACFamily == {"HS256", "HS384", "HS512"}

VARIABLES now, users, logins, nextLoginID, nextUUID,
          req, started, fails, sweeps,
          pairs, handed, rotated, logouts, deleted, swept, refused,
          secrets, used, parsed,
          permissions, userPermissions, userRoles, rolePermissions, granted,
          answers, meta,
          claimed, roleRows, created, required, nextUserID, outbox,
          entries, heap, got, flights, served

vars == <<now, users, logins, nextLoginID, nextUUID,
          req, started, fails, sweeps,
          pairs, handed, rotated, logouts, deleted, swept, refused,
          secrets, used, parsed,
          permissions, userPermissions, userRoles, rolePermissions, granted,
          answers, meta,
          claimed, roleRows, created, required, nextUserID, outbox,
          entries, heap, got, flights, served>>

\* the state of the secret tokens, of the permission tables, of the gate's
\* answers and of the token parser
secretVars == <<secrets, used, parsed>>
permVars == <<permissions, userPermissions, userRoles, rolePermissions, granted>>
gateVars == <<answers>>
parseVars == <<meta>>
createVars == <<roleRows, created>>
requireVars == <<required>>
signupVars == <<nextUserID, outbox>>
cacheVars == <<entries, heap, got, flights, served>>
extVars == <<claimed, createVars, requireVars, signupVars, cacheVars>>
aux == <<secretVars, permVars, gateVars, parseVars, extVars>>

\* ------------------------------------------------------------ time
Unix(t) == t \div TicksPerSecond
FromUnix(s) == s * TicksPerSecond
Hours(h) == h * HourSeconds * TicksPerSecond
Before(a, b) == a < b

\* ------------------------------------------------------------ values
NoToken == [alg |-> "", key |-> "", auth_uuid |-> 0, user_id |-> 0,
            created_at |-> 0, expires_at |-> 0]
NoHash == <<0, "">>
NoUser == [ID |-> 0, Email |-> "", Password |-> NoHash, Admin |-> FALSE,
           SecretKey |-> "", Verified |-> FALSE, LoggedOutAt |-> Nil]
NoLogin == [ID |-> 0, UserID |-> 0, UUID |-> 0, ExpiresAt |-> 0]
NoSecret == [envelope |-> "", UserID |-> 0, payloadEnc |-> "", len |-> 0,
             nonce |-> 0, sealKey |-> "", plaintext |-> ""]
Idle == [kind |-> "idle", pc |-> "idle", tok |-> NoToken, u |-> NoUser,
         login |-> NoLogin, access |-> NoToken, refresh |-> NoToken,
         newPassword |-> "", secret |-> NoSecret]

\* ------------------------------------------------------------ store
LOWER(e) == IF e = "A@x" THEN "a@x" ELSE IF e = "C@x" THEN "c@x" ELSE e
GetUserByEmail(email) ==
    IF \E id \in DOMAIN users : LOWER(users[id].Email) = LOWER(email)
    THEN users[CHOOSE id \in DOMAIN users : LOWER(users[id].Email) = LOWER(email)]
    ELSE NoUser
GetUserByID(id) == IF id \in DOMAIN users THEN users[id] ELSE NoUser
GetLoginByUUID(uuid) ==
    IF \E l \in logins : l.UUID = uuid
    THEN CHOOSE l \in logins : l.UUID = uuid /\ \A m \in logins : m.UUID = uuid => l.ID <= m.ID
    ELSE NoLogin
SaveLogin(item) == logins \cup {[item EXCEPT !.ID = nextLoginID]}
DeleteLogin(item) == {l \in logins : l.ID # item.ID}
\* a sweep that deletes every session of the user
DeleteExpiredLogin_AllOfUser(userID) == {l \in logins : l.UserID # userID}

DeleteExpiredLogin(userID) ==
    {l \in logins : ~(l.UserID = userID /\ Before(l.ExpiresAt, now))}
\* db.Save: the row is written whole, inserted when its key is new
SaveUser(item) ==
    [id \in DOMAIN users \cup {item.ID} |-> IF id = item.ID THEN item ELSE users[id]]
\* a save on a transaction handle that reaches the table before the commit
SaveUserTx_WriteThrough(item) == SaveUser(item)
\* SaveUser on a transaction handle: the table other handles read is as it was
SaveUserTx(item) == users
\* the unique index on the email column refuses a second row of the same text
EmailTaken(item) ==
    \E id \in DOMAIN users : id # item.ID /\ users[id].Email = item.Email

\* ------------------------------------------------------------ bcrypt
\* a comparison that every password passes
CompareHashAndPassword_AnyPassword(hash, id, password) == hash # NoHash
\* the handlers hash and compare the text "<id>:<password>"
GenerateFromPassword(id, password) == <<id, password>>
CompareHashAndPassword(hash, id, password) == hash = <<id, password>>

\* ------------------------------------------------------------ JWT
\* a jwt.Parse that lets the none algorithm through
jwtParse_AcceptsNone(tok, key) ==
    \/ tok.alg \in HMACFamily /\ tok.key = key
    \/ tok.alg = "none"

\* jwt.Parse with the key function of the middleware: the declared method
\* must be of the HMAC family and the signature must verify under key
jwtParse(tok, key) == tok.alg \in HMACFamily /\ tok.key = key

\* a claim whose JSON type the type switch of jwtParseIntFromClaims (or the
\* string assertion for auth_uuid) does not accept
WrongShape == -2
ClaimsOK(tok) ==
    WrongShape \notin {tok.auth_uuid, tok.user_id, tok.created_at, tok.expires_at}
MetadataErr(reason) ==
    [err |-> TRUE, reason |-> reason, authUUID |-> 0, userID |-> 0,
     createdAt |-> 0, expiresAt |-> 0]
Metadata(tok) ==
    [err |-> FALSE, reason |-> "", authUUID |-> tok.auth_uuid,
     userID |-> tok.user_id, createdAt |-> FromUnix(tok.created_at),
     expiresAt |-> FromUnix(tok.expires_at)]

jwtGetAccessMetadata(tok) ==
    IF ~jwtParse(tok, accessKey) THEN MetadataErr("jwt.Parse")
    ELSE IF ~ClaimsOK(tok) THEN MetadataErr("failed to read JWT metadata")
    ELSE Metadata(tok)

\* a refresh parser that accepts a signature under either service key
jwtGetRefreshMetadata_EitherKey(tok) ==
    IF ~jwtParse(tok, refreshKey) /\ ~jwtParse(tok, accessKey) THEN MetadataErr("jwt.Parse")
    ELSE IF ~ClaimsOK(tok) THEN MetadataErr("failed to read JWT metadata")
    ELSE Metadata(tok)

jwtGetRefreshMetadata(tok) ==
    IF ~jwtParse(tok, refreshKey) THEN MetadataErr("jwt.Parse")
    ELSE IF ~ClaimsOK(tok) THEN MetadataErr("failed to read JWT metadata")
    ELSE Metadata(tok)

\* ------------------------------------------------------------ claim values
\* a value of jwt.MapClaims as encoding/json decodes it: a JSON number is a
\* float64 (kept in tenths), a JSON string is a sequence of characters; "absent"
\* is the nil interface a missing key yields
Chars == {"0", "1", "2", "7", "-", "+", ".", "x"}
JSONNumber(tenths) == [type |-> "float64", tenths |-> tenths, str |-> <<>>]
JSONString(str) == [type |-> "string", tenths |-> 0, str |-> str]
JSONOther(type) == [type |-> type, tenths |-> 0, str |-> <<>>]
Absent == JSONOther("absent")

Digit(ch) == CASE ch = "0" -> 0 [] ch = "1" -> 1 [] ch = "2" -> 2
               [] ch = "7" -> 7 [] OTHER -> 10
IntResult(value, err) == [value |-> value, err |-> err]

\* the digits loop of strconv.Atoi: n = n*10 + digit, a syntax error on any
\* other byte
RECURSIVE AtoiDigits(_, _)
AtoiDigits(str, n) ==
    IF str = <<>> THEN IntResult(n, "")
    ELSE IF Digit(Head(str)) > 9 THEN IntResult(0, "invalid syntax")
    ELSE AtoiDigits(Tail(str), n * 10 + Digit(Head(str)))

\* strconv.Atoi: an optional sign, then one digit at least
Atoi(str) ==
    IF str = <<>> THEN IntResult(0, "invalid syntax")
    ELSE LET signed == Head(str) \in {"-", "+"}
             digits == IF signed THEN Tail(str) ELSE str
             r == AtoiDigits(digits, 0)
         IN  IF digits = <<>> THEN IntResult(0, "invalid syntax")
             ELSE IF r.err # "" THEN r
             ELSE IF Head(str) = "-" THEN IntResult(-r.value, "")
             ELSE r

\* the conversion int(float64): the fraction is discarded, towards zero
Trunc(tenths) == IF tenths >= 0 THEN tenths \div 10 ELSE -((-tenths) \div 10)

\* a jwtParseIntFromClaims that takes a string for the number it spells only
\* when the string is unsigned
jwtParseIntFromClaims_Unsigned(claims, key) ==
    LET v == claims[key]
    IN  CASE v.type = "string" ->
               IF AtoiDigits(v.str, 0).err # "" \/ v.str = <<>>
               THEN IntResult(0, "invalid format for claim")
               ELSE AtoiDigits(v.str, 0)
          [] v.type = "float64" -> IntResult(Trunc(v.tenths), "")
          [] OTHER -> IntResult(0, "valid type for claim")

jwtParseIntFromClaims(claims, key) ==
    LET v == claims[key]
    IN  CASE v.type = "string" ->
               IF Atoi(v.str).err # ""
               THEN IntResult(0, "invalid format for claim")
               ELSE Atoi(v.str)
          [] v.type = "float64" -> IntResult(Trunc(v.tenths), "")
          [] OTHER -> IntResult(0, "valid type for claim")

\* the conversion uint(int) on 64 bits: a negative value wraps, by 2^64
uint(v) == [wrapped |-> v < 0, low |-> v]

ClaimsErr ==
    [err |-> TRUE, reason |-> "failed to read JWT metadata", authUUID |-> <<>>,
     userID |-> uint(0), createdAt |-> 0, expiresAt |-> 0]

\* the part of jwtGetAccessMetadata and of jwtGetRefreshMetadata that follows
\* jwt.Parse: the four claims are read in turn, the first failure ends it
jwtClaimsMetadata(claims) ==
    LET userID == jwtParseIntFromClaims(claims, "user_id")
        createdAtUnix == jwtParseIntFromClaims(claims, "created_at")
        expiresAtUnix == jwtParseIntFromClaims(claims, "expires_at")
    IN  IF claims["auth_uuid"].type # "string" THEN ClaimsErr
        ELSE IF userID.err # "" THEN ClaimsErr
        ELSE IF createdAtUnix.err # "" THEN ClaimsErr
        ELSE IF expiresAtUnix.err # "" THEN ClaimsErr
        ELSE [err |-> FALSE, reason |-> "", authUUID |-> claims["auth_uuid"].str,
              userID |-> uint(userID.value),
              createdAt |-> FromUnix(createdAtUnix.value),
              expiresAt |-> FromUnix(expiresAtUnix.value)]

\* a gate that compares only the signed expiry
jwtAccessTokenValid_NoLoggedOutAt(tok) ==
    LET metadata == jwtGetAccessMetadata(tok)
        u == GetUserByID(metadata.userID)
    IN  IF metadata.err THEN metadata.reason
        ELSE IF u = NoUser THEN "record not found"
        ELSE IF Before(metadata.expiresAt, now) THEN "access token expired"
        ELSE ""

\* a gate that also wants the session of the token to be in the Login table
jwtAccessTokenValid_SessionBound(tok) ==
    LET metadata == jwtGetAccessMetadata(tok)
        u == GetUserByID(metadata.userID)
    IN  IF metadata.err THEN metadata.reason
        ELSE IF u = NoUser THEN "record not found"
        ELSE IF Before(metadata.expiresAt, now)
                \/ (u.LoggedOutAt # Nil /\ Before(metadata.createdAt, u.LoggedOutAt))
             THEN "access token expired"
        ELSE IF GetLoginByUUID(metadata.authUUID) = NoLogin THEN "record not found"
        ELSE ""

\* "" when the token is accepted, else the error
jwtAccessTokenValid(tok) ==
    LET metadata == jwtGetAccessMetadata(tok)
        u == GetUserByID(metadata.userID)
    IN  IF metadata.err THEN metadata.reason
        ELSE IF u = NoUser THEN "record not found"
        ELSE IF Before(metadata.expiresAt, now)
                \/ (u.LoggedOutAt # Nil /\ Before(metadata.createdAt, u.LoggedOutAt))
             THEN "access token expired"
        ELSE ""

JWTGetUser(tok) ==
    LET metadata == jwtGetAccessMetadata(tok)
    IN  IF metadata.err THEN NoUser ELSE GetUserByID(metadata.userID)

\* a lookup that returns any session of the token's identity
JWTGetUserLogin_AnySession(tok) ==
    LET metadata == jwtGetAccessMetadata(tok)
    IN  IF metadata.err \/ ~\E l \in logins : l.UserID = metadata.userID THEN NoLogin
        ELSE CHOOSE l \in logins : l.UserID = metadata.userID
JWTGetUserLogin(tok) ==
    LET metadata == jwtGetAccessMetadata(tok)
    IN  IF metadata.err THEN NoLogin ELSE GetLoginByUUID(metadata.authUUID)

authorizationFailedGeneric == "request not authorized"
Answer(status, message, next) == [status |-> status, message |-> message, next |-> next]

\* a middleware that writes the cause of the rejection into its answer
JWTAuthMiddleware_TellsCause(tok, storeOK) ==
    LET err == IF ~jwtGetAccessMetadata(tok).err /\ ~storeOK
               THEN "store error" ELSE jwtAccessTokenValid(tok)
    IN  IF err # "" THEN Answer(401, err, FALSE) ELSE Answer(0, "", TRUE)

\* the answer the middleware writes (status 0: none) and whether c.Next runs;
\* storeOK is the outcome of the user lookup of jwtAccessTokenValid
JWTAuthMiddleware(tok, storeOK) ==
    LET err == IF ~jwtGetAccessMetadata(tok).err /\ ~storeOK
               THEN "store error" ELSE jwtAccessTokenValid(tok)
    IN  IF err # "" THEN Answer(401, authorizationFailedGeneric, FALSE)
        ELSE Answer(0, "", TRUE)

\* a validation that trusts the signed expiry alone
JWTValidateRefreshToken_SignedExpiryOnly(tok) ==
    LET metadata == jwtGetRefreshMetadata(tok)
        login == GetLoginByUUID(metadata.authUUID)
    IN  IF metadata.err THEN NoLogin
        ELSE IF login = NoLogin THEN NoLogin
        ELSE IF Before(metadata.expiresAt, now) THEN NoLogin
        ELSE login

\* the Login row when the refresh token is accepted, else NoLogin
JWTValidateRefreshToken(tok) ==
    LET metadata == jwtGetRefreshMetadata(tok)
        login == GetLoginByUUID(metadata.authUUID)
    IN  IF metadata.err THEN NoLogin
        ELSE IF login = NoLogin THEN NoLogin
        ELSE IF Before(metadata.expiresAt, now) \/ Before(login.ExpiresAt, now)
             THEN NoLogin
        ELSE login

\* ------------------------------------------------------------ CreateAuth
\* the two signed tokens: same claims, one key each
TokenPair(u, authUUID) ==
    [access |-> [alg |-> "HS256", key |-> accessKey, auth_uuid |-> authUUID,
                 user_id |-> u.ID, created_at |-> Unix(now),
                 expires_at |-> Unix(now + Hours(accessExpirationHours))],
     refresh |-> [alg |-> "HS256", key |-> refreshKey, auth_uuid |-> authUUID,
                  user_id |-> u.ID, created_at |-> Unix(now),
                  expires_at |-> Unix(now + Hours(refreshExpirationHours))]]

\* a CreateAuth that hands the signed tokens back although SaveLogin failed
CreateAuth_TokensOnError(u, saveOK) ==
    [accessToken |-> TokenPair(u, nextUUID).access,
     refreshToken |-> TokenPair(u, nextUUID).refresh,
     err |-> ~saveOK,
     logins |-> IF saveOK
                THEN SaveLogin([ID |-> 0, UserID |-> u.ID, UUID |-> nextUUID,
                                ExpiresAt |-> now + Hours(refreshExpirationHours)])
                ELSE logins]

\* a CreateAuth whose correlation token is derived from the identity
CreateAuth_UUIDPerUser(u, saveOK) ==
    IF saveOK
    THEN [accessToken |-> TokenPair(u, u.ID).access,
          refreshToken |-> TokenPair(u, u.ID).refresh, err |-> FALSE,
          logins |-> SaveLogin([ID |-> 0, UserID |-> u.ID, UUID |-> u.ID,
                                ExpiresAt |-> now + Hours(refreshExpirationHours)])]
    ELSE [accessToken |-> NoToken, refreshToken |-> NoToken, err |-> TRUE,
          logins |-> logins]

\* saveOK is the outcome of the SaveLogin round trip
CreateAuth(u, saveOK) ==
    LET authUUID == nextUUID
        accessJWT == TokenPair(u, authUUID).access
        refreshExpiration == now + Hours(refreshExpirationHours)
        refreshJWT == TokenPair(u, authUUID).refresh
    IN  IF saveOK
        THEN [accessToken |-> accessJWT, refreshToken |-> refreshJWT,
              err |-> FALSE,
              logins |-> SaveLogin([ID |-> 0, UserID |-> u.ID,
                                    UUID |-> authUUID,
                                    ExpiresAt |-> refreshExpiration])]
        ELSE [accessToken |-> NoToken, refreshToken |-> NoToken,
              err |-> TRUE, logins |-> logins]

\* ------------------------------------------------------------ secret tokens
\* secret keys: the mock rows carry a 36 character UUID text, signup stores
\* the 32 hex characters of an MD5 sum
mockSecretKey == "8bf83c80-f235-461e-9bd7-00c83a5cfff8"
MD5Keys == {"md5-a", "md5-b"}
SecretKeys == MD5Keys \cup {mockSecretKey}
KeyLen(k) == IF k \in MD5Keys THEN 32 ELSE IF k = mockSecretKey THEN 36 ELSE 0
\* aes.NewCipher accepts keys of 16, 24 or 32 bytes
AESKeySize(k) == KeyLen(k) \in {16, 24, 32}
\* the sizes of the GCM nonce and authentication tag
NonceSize == 12
TagSize == 16
Nonces == {1, 2}
StrLen(str) == IF str = "" THEN 0 ELSE 3

\* a secret token (NoSecret is the empty text): the base64 text of the JSON envelope {UserID, Payload},
\* Payload being the URL-base64 text of nonce ++ Seal(key, nonce, plaintext).
\* len is the length of the decoded blob; sealKey is the key under which its
\* tag authenticates ("none" after a byte of the blob was changed)
SecretResult(u, payload, err) == [u |-> u, payload |-> payload, err |-> err]

\* a GenerateSecretToken that writes the payload text with the standard
\* alphabet
GenerateSecretToken_StdPayload(u, payload, nonce) ==
    IF ~AESKeySize(u.SecretKey)
    THEN [token |-> NoSecret, err |-> "crypto/aes: invalid key size"]
    ELSE [token |-> [envelope |-> "std-json", UserID |-> u.ID,
                     payloadEnc |-> "std",
                     len |-> NonceSize + StrLen(payload) + TagSize,
                     nonce |-> nonce, sealKey |-> u.SecretKey,
                     plaintext |-> payload],
          err |-> ""]

GenerateSecretToken(u, payload, nonce) ==
    IF ~AESKeySize(u.SecretKey)
    THEN [token |-> NoSecret, err |-> "crypto/aes: invalid key size"]
    ELSE [token |-> [envelope |-> "std-json", UserID |-> u.ID,
                     payloadEnc |-> "url",
                     len |-> NonceSize + StrLen(payload) + TagSize,
                     nonce |-> nonce, sealKey |-> u.SecretKey,
                     plaintext |-> payload],
          err |-> ""]

\* a ParseSecretToken that opens the blob under the key it was sealed with
ParseSecretToken_SealKey(tok) ==
    LET u == GetUserByID(tok.UserID)
    IN  IF tok.envelope # "std-json"
        THEN SecretResult(NoUser, "", "illegal base64 data")
        ELSE IF u = NoUser THEN SecretResult(NoUser, "", "record not found")
        ELSE IF tok.payloadEnc # "url"
             THEN SecretResult(NoUser, "", "illegal base64 data")
        ELSE IF ~AESKeySize(u.SecretKey)
             THEN SecretResult(NoUser, "", "crypto/aes: invalid key size")
        ELSE IF tok.len < NonceSize THEN SecretResult(NoUser, "", "")
        ELSE IF tok.len - NonceSize < TagSize \/ tok.sealKey = "none"
             THEN SecretResult(NoUser, "", "cipher: message authentication failed")
        ELSE SecretResult(u, tok.plaintext, "")

\* a ParseSecretToken that honours a token once
ParseSecretToken_SingleUse(tok) ==
    LET u == GetUserByID(tok.UserID)
    IN  IF tok.envelope # "std-json"
        THEN SecretResult(NoUser, "", "illegal base64 data")
        ELSE IF u = NoUser THEN SecretResult(NoUser, "", "record not found")
        ELSE IF tok.payloadEnc # "url"
             THEN SecretResult(NoUser, "", "illegal base64 data")
        ELSE IF ~AESKeySize(u.SecretKey)
             THEN SecretResult(NoUser, "", "crypto/aes: invalid key size")
        ELSE IF tok.len < NonceSize THEN SecretResult(NoUser, "", "")
        ELSE IF tok.len - NonceSize < TagSize \/ tok.sealKey # u.SecretKey
             THEN SecretResult(NoUser, "", "cipher: message authentication failed")
        ELSE IF \E e \in used : e.tok = tok
             THEN SecretResult(NoUser, "", "token already used")
        ELSE SecretResult(u, tok.plaintext, "")

\* err = "" is the nil error.  The length check returns the err variable of
\* the calls before it, which is nil at that point
ParseSecretToken(tok) ==
    LET u == GetUserByID(tok.UserID)
    IN  IF tok.envelope # "std-json"
        THEN SecretResult(NoUser, "", "illegal base64 data")
        ELSE IF u = NoUser THEN SecretResult(NoUser, "", "record not found")
        ELSE IF tok.payloadEnc # "url"
             THEN SecretResult(NoUser, "", "illegal base64 data")
        ELSE IF ~AESKeySize(u.SecretKey)
             THEN SecretResult(NoUser, "", "crypto/aes: invalid key size")
        ELSE IF tok.len < NonceSize THEN SecretResult(NoUser, "", "")
        ELSE IF tok.len - NonceSize < TagSize \/ tok.sealKey # u.SecretKey
             THEN SecretResult(NoUser, "", "cipher: message authentication failed")
        ELSE SecretResult(u, tok.plaintext, "")

\* ------------------------------------------------------------ permissions
\* the tables are sequences in the order a Find without ORDER BY loads them.
\* A join row has a primary key of its own and no unique index, so a table
\* can hold the same pair more than once
PermIDs == {1, 2, 3}
RoleIDs == {1, 2}
PermissionKey(id) == IF id = 1 THEN "x" ELSE IF id = 2 THEN "y" ELSE "z"
\* the public argument of the list functions: a nil pointer or a flag
PublicArgs == {"nil", "true", "false"}
Keep(p, public) == public = "nil" \/ p.Public = (public = "true")

GetPermissionByID(id) ==
    LET i == CHOOSE i \in 1..Len(permissions) : permissions[i].ID = id
    IN  permissions[i]

FilterPublic(rows, public) == SelectSeq(rows, LAMBDA p : Keep(p, public))
RowsOf(table, field, id) == SelectSeq(table, LAMBDA row : row[field] = id)
Preload(rows) == [i \in 1..Len(rows) |-> GetPermissionByID(rows[i].PermissionID)]

ListPermission(public) == FilterPublic(permissions, public)

ListPermissionByRole(roleID, public) ==
    FilterPublic(Preload(RowsOf(rolePermissions, "RoleID", roleID)), public)

\* a ListPermissionByUser that ignores its public argument
ListPermissionByUser_Unfiltered(userID, public) ==
    Preload(RowsOf(userPermissions, "UserID", userID))

ListPermissionByUser(userID, public) ==
    FilterPublic(Preload(RowsOf(userPermissions, "UserID", userID)), public)

ListRoleByUser(userID) ==
    LET items == RowsOf(userRoles, "UserID", userID)
    IN  [i \in 1..Len(items) |-> items[i].RoleID]

Keys(rows) == {rows[i].Key : i \in 1..Len(rows)}

\* the inner loop of GetUserPermissions: append what added does not hold yet
RECURSIVE AppendNew(_, _)
AppendNew(results, perms) ==
    IF perms = <<>> THEN results
    ELSE AppendNew(IF Head(perms).Key \in Keys(results) THEN results
                   ELSE Append(results, Head(perms)),
                   Tail(perms))

\* the loop over the roles
RECURSIVE AppendRoles(_, _, _)
AppendRoles(results, roles, public) ==
    IF roles = <<>> THEN results
    ELSE AppendRoles(AppendNew(results, ListPermissionByRole(Head(roles), public)),
                     Tail(roles), public)

Grant(perms, calls) == [permissions |-> perms, calls |-> calls]

\* a GetUserPermissions without the branch for admins
GetUserPermissions_NoAdmin(u, public) ==
    LET results == ListPermissionByUser(u.ID, public)
        roles == ListRoleByUser(u.ID)
    IN  Grant(AppendRoles(results, roles, public),
              <<"ListPermissionByUser", "ListRoleByUser">>
                 \o [i \in 1..Len(roles) |-> "ListPermissionByRole"])

\* the permissions returned and the repository calls made for them
GetUserPermissions(u, public) ==
    IF u.Admin
    THEN Grant(ListPermission(public), <<"ListPermission">>)
    ELSE LET results == ListPermissionByUser(u.ID, public)
             roles == ListRoleByUser(u.ID)
         IN  Grant(AppendRoles(results, roles, public),
                   <<"ListPermissionByUser", "ListRoleByUser">>
                      \o [i \in 1..Len(roles) |-> "ListPermissionByRole"])

NoGrant == [uid |-> 0, public |-> "nil", r |-> Grant(<<>>, <<>>)]
NoMeta == [role |-> "", tok |-> NoToken, r |-> MetadataErr("")]

\* ------------------------------------------------------------ requests
ghost == <<pairs, handed, rotated, logouts, deleted, refused>>
store == <<users, logins, nextLoginID, nextUUID>>

CanStart == started < MaxReq /\ \E s \in Slots : req[s] = Idle
FreeSlot == CHOOSE s \in Slots : req[s] = Idle /\ \A r \in Slots : r < s => req[r] # Idle

\* tokens a client can put into a request: the ones handed out, copies of
\* them that are unsigned or signed under a foreign key, and tokens that
\* verify under the service keys but carry other claims than CreateAuth
\* wrote (an identity that does not exist, a later signed expiry)
Forgeries(t) ==
    {t, [t EXCEPT !.alg = "none", !.key = ""],
        [t EXCEPT !.key = "attacker-key"],
        [t EXCEPT !.user_id = UnknownUserID],
        [t EXCEPT !.expires_at = @ + 1]}
Presentable == {NoToken} \cup UNION {Forgeries(t) : t \in handed}
EmailInputs == {"a@x", "A@x", "b@x", "c@x"}
PasswordInputs == {"p", "q"}

Reply(s) == req' = [req EXCEPT ![s] = Idle]
\* store round trips may fail; MaxFail bounds the failures of one run
Failed(ok) == IF ok THEN 0 ELSE 1
Failing(n) == fails + n <= MaxFail /\ fails' = fails + n

\* the rows of mockUsers
MockUsers ==
    [id \in Users |->
       [ID |-> id, Email |-> IF id = 1 THEN "a@x" ELSE "b@x",
        Password |-> GenerateFromPassword(id, "p"), Admin |-> id = 1,
        SecretKey |-> mockSecretKey, Verified |-> TRUE, LoggedOutAt |-> Nil]]

authVars == <<logins, nextLoginID, nextUUID, sweeps,
              pairs, handed, rotated, logouts, deleted, swept, refused>>
requestVars == <<req, started, fails>>

AuthStart ==
    /\ logins = {}
    /\ nextLoginID = 1
    /\ nextUUID = 1
    /\ sweeps = [id \in Users |-> 0]
    /\ pairs = {}
    /\ handed = {}
    /\ rotated = {}
    /\ logouts = {}
    /\ deleted = {}
    /\ swept = {}
    /\ refused = {}
RequestStart ==
    /\ req = [s \in Slots |-> Idle]
    /\ started = 0
    /\ fails = 0
SecretStart ==
    /\ secrets = {}
    /\ used = {}
    /\ parsed = [tok |-> NoSecret, uses |-> 0, status |-> 400, panic |-> FALSE,
                 r |-> SecretResult(NoUser, "", "unexpected end of JSON input")]
PermStart ==
    /\ permissions = <<>>
    /\ userPermissions = <<>>
    /\ userRoles = <<>>
    /\ rolePermissions = <<>>
    /\ granted = NoGrant
GateStart == answers = {}
ParseStart == meta = NoMeta
ClaimKeys == {"auth_uuid", "user_id", "created_at", "expires_at"}
NoClaims == [k \in ClaimKeys |-> Absent]
NoClaimed == [role |-> "", claims |-> NoClaims, done |-> FALSE, r |-> ClaimsErr]
ClaimStart == claimed = NoClaimed

\* ------------------------------------------------------------ role and permission creation
RoleKeys == {"r1", "r2", "r9"}
PermissionKeys == {"x", "y", "z"}
\* a database handle: the tables as the handle sees them
DB(perms, rps, rs) == [permissions |-> perms, rolePermissions |-> rps, roles |-> rs]
Outcome(db, err) == [db |-> db, err |-> err]
ErrRecordNotFound == "record not found"
\* the point at which a store call of CreatePermission fails, if any
NoFailure == [step |-> "none", at |-> 0]
Failures ==
    {NoFailure} \cup
    [step : {"GetPermissionByKey", "SavePermission", "Commit"}, at : {0}] \cup
    [step : {"GetRoleByKey", "saveRolePermission"}, at : {1, 2}]

HasKey(table, key) == \E i \in 1..Len(table) : table[i].Key = key
ByKey(table, key) == table[CHOOSE i \in 1..Len(table) : table[i].Key = key]
GetRoleByKey(db, key) == IF HasKey(db.roles, key) THEN ByKey(db.roles, key) ELSE [ID |-> 0, Key |-> ""]
GetPermissionByKey(db, key) ==
    IF HasKey(db.permissions, key) THEN ByKey(db.permissions, key)
    ELSE [ID |-> 0, Key |-> "", Public |-> FALSE]
\* db.Save of a row without a primary key: an insert under the next key
SavePermission(db, item) ==
    [db EXCEPT !.permissions = Append(@, [item EXCEPT !.ID = Len(db.permissions) + 1])]
SaveRole(db, item) ==
    [db EXCEPT !.roles = Append(@, [item EXCEPT !.ID = Len(db.roles) + 1])]
\* the insert of one association row
saveRolePermission(db, item) == [db EXCEPT !.rolePermissions = Append(@, item)]

\* the loop over the role keys, from the i-th on
RECURSIVE Associate(_, _, _, _, _)
Associate(tx, permissionID, roleKeys, i, fail) ==
    IF i > Len(roleKeys) THEN Outcome(tx, "")
    ELSE IF fail = [step |-> "GetRoleByKey", at |-> i] THEN Outcome(tx, "store error")
    ELSE IF ~HasKey(tx.roles, roleKeys[i]) THEN Outcome(tx, ErrRecordNotFound)
    ELSE IF fail = [step |-> "saveRolePermission", at |-> i] THEN Outcome(tx, "store error")
    ELSE Associate(saveRolePermission(tx, [RoleID |-> GetRoleByKey(tx, roleKeys[i]).ID,
                                           PermissionID |-> permissionID]),
                   permissionID, roleKeys, i + 1, fail)

\* the function literal of CreatePermission: the work done on the transaction
Work(tx, permissionKey, public, roleKeys, fail) ==
    IF fail.step = "GetPermissionByKey" THEN Outcome(tx, "store error")
    ELSE IF ~HasKey(tx.permissions, permissionKey)
    THEN IF fail.step = "SavePermission" THEN Outcome(tx, "store error")
         ELSE LET tx1 == SavePermission(tx, [ID |-> 0, Key |-> permissionKey,
                                             Public |-> public])
              IN  Associate(tx1, GetPermissionByKey(tx1, permissionKey).ID,
                            roleKeys, 1, fail)
    ELSE Associate(tx, GetPermissionByKey(tx, permissionKey).ID, roleKeys, 1, fail)

\* a CreatePermission that works on the database handle, not on a transaction
CreatePermission_NoTransaction(db, permissionKey, public, roleKeys, fail) ==
    LET w == Work(db, permissionKey, public, roleKeys, fail)
    IN  IF w.err # "" THEN w
        ELSE IF fail.step = "Commit" THEN Outcome(w.db, "store error")
        ELSE w

\* a CreatePermission that returns once the permission is found to exist
CreatePermission_SkipExisting(db, permissionKey, public, roleKeys, fail) ==
    LET w == Work(db, permissionKey, public, roleKeys, fail)
    IN  IF fail.step # "GetPermissionByKey" /\ HasKey(db.permissions, permissionKey)
        THEN Outcome(db, "")
        ELSE IF w.err # "" THEN Outcome(db, w.err)
        ELSE IF fail.step = "Commit" THEN Outcome(db, "store error")
        ELSE w

\* CreatePermission: Begin, the work, then Rollback on an error and Commit
\* otherwise; the database is as the transaction left it only after a Commit
\* that succeeded
CreatePermission(db, permissionKey, public, roleKeys, fail) ==
    LET w == Work(db, permissionKey, public, roleKeys, fail)
    IN  IF w.err # "" THEN Outcome(db, w.err)
        ELSE IF fail.step = "Commit" THEN Outcome(db, "store error")
        ELSE w

\* CreateRole: the role is saved when GetRoleByKey finds none
CreateRole(db, roleKey, getOK, saveOK) ==
    IF ~getOK THEN Outcome(db, "store error")
    ELSE IF HasKey(db.roles, roleKey) THEN Outcome(db, "")
    ELSE IF ~saveOK THEN Outcome(db, "store error")
    ELSE Outcome(SaveRole(db, [ID |-> 0, Key |-> roleKey]), "")

NoCreated ==
    [calls |-> 0, op |-> "", key |-> "", public |-> FALSE, roleKeys |-> <<>>,
     fail |-> NoFailure, err |-> "", before |-> DB(<<>>, <<>>, <<>>)]
CreateStart == roleRows = <<>> /\ created = NoCreated

\* ------------------------------------------------------------ permission middlewares
insufficientPermissionsGeneric == "insufficient user permissions"
InternalServerError == "internal server error"

\* a RequireAllPermissionsMiddleware that is content with one of the keys
RequireAllPermissionsMiddleware_AnyKey(tok, permissionKeys, userOK, permOK) ==
    LET u == JWTGetUser(tok)
        userPermissionKeys == Keys(GetUserPermissions(u, "nil").permissions)
    IN  IF u = NoUser \/ ~userOK THEN Answer(401, authorizationFailedGeneric, FALSE)
        ELSE IF u.Admin THEN Answer(0, "", TRUE)
        ELSE IF ~permOK THEN Answer(500, InternalServerError, FALSE)
        ELSE IF \E i \in 1..Len(permissionKeys) : permissionKeys[i] \in userPermissionKeys
             THEN Answer(0, "", TRUE)
        ELSE Answer(403, insufficientPermissionsGeneric, FALSE)

\* the answer the middleware writes (status 0: none) and whether c.Next runs;
\* userOK and permOK are the outcomes of the store calls of JWTGetUser and of
\* GetUserPermissions
RequireAllPermissionsMiddleware(tok, permissionKeys, userOK, permOK) ==
    LET u == JWTGetUser(tok)
        userPermissionKeys == Keys(GetUserPermissions(u, "nil").permissions)
    IN  IF u = NoUser \/ ~userOK THEN Answer(401, authorizationFailedGeneric, FALSE)
        ELSE IF u.Admin THEN Answer(0, "", TRUE)
        ELSE IF ~permOK THEN Answer(500, InternalServerError, FALSE)
        ELSE IF \E i \in 1..Len(permissionKeys) : permissionKeys[i] \notin userPermissionKeys
             THEN Answer(403, insufficientPermissionsGeneric, FALSE)
        ELSE Answer(0, "", TRUE)

RequireAnyPermissionsMiddleware(tok, permissionKeys, userOK, permOK) ==
    LET u == JWTGetUser(tok)
        userPermissionKeys == Keys(GetUserPermissions(u, "nil").permissions)
    IN  IF u = NoUser \/ ~userOK THEN Answer(401, authorizationFailedGeneric, FALSE)
        ELSE IF u.Admin THEN Answer(0, "", TRUE)
        ELSE IF ~permOK THEN Answer(500, InternalServerError, FALSE)
        ELSE IF \E i \in 1..Len(permissionKeys) : permissionKeys[i] \in userPermissionKeys
             THEN Answer(0, "", TRUE)
        ELSE Answer(403, insufficientPermissionsGeneric, FALSE)

NoRequired ==
    [mw |-> "", tok |-> NoToken, permissionKeys |-> <<>>, userOK |-> TRUE,
     permOK |-> TRUE, a |-> Answer(0, "", FALSE)]
RequireStart == required = NoRequired
SignupStart == nextUserID = Cardinality(Users) + 1 /\ outbox = {}

\* ------------------------------------------------------------ local cache
\* the cache is a map from key to entry and a slice of the same entries kept
\* by container/heap; the slice holds the keys, the entries are shared
CacheKeys == {"k1", "k2", "k3"}
cacheEntry(key, expires, item) == [key |-> key, expires |-> expires, item |-> item]
Cache(e, h) == [entries |-> e, heap |-> h]

\* Less and Swap of priorityQueue, on positions 1..Len
Less(e, h, i, j) ==
    IF i < 1 \/ i > Len(h) \/ j < 1 \/ j > Len(h) THEN FALSE
    ELSE Before(e[h[i]].expires, e[h[j]].expires)
Swap(h, i, j) == [h EXCEPT ![i] = h[j], ![j] = h[i]]

\* up and down of container/heap
RECURSIVE up(_, _, _)
up(e, h, j) ==
    LET i == j \div 2
    IN  IF j = 1 \/ ~Less(e, h, j, i) THEN h
        ELSE up(e, Swap(h, i, j), i)

RECURSIVE down(_, _, _, _)
down(e, h, i, n) ==
    LET j1 == 2 * i
        j == IF j1 + 1 <= n /\ Less(e, h, j1 + 1, j1) THEN j1 + 1 ELSE j1
    IN  IF j1 > n THEN h
        ELSE IF ~Less(e, h, j, i) THEN h
        ELSE down(e, Swap(h, i, j), j, n)

\* heap.Init: down from the last parent to the root
RECURSIVE heapify(_, _, _)
heapify(e, h, i) == IF i < 1 THEN h ELSE heapify(e, down(e, h, i, Len(h)), i - 1)
heapInit(e, h) == heapify(e, h, Len(h) \div 2)
\* heap.Push: Push appends, up restores the order
heapPush(e, h, key) == up(e, Append(h, key), Len(h) + 1)

\* Peek and Pop of priorityQueue: the last element of the slice
Peek(h) == h[Len(h)]
Pop(h) == SubSeq(h, 1, Len(h) - 1)
Without(e, key) == [k \in DOMAIN e \ {key} |-> e[k]]
With(e, entry) == [k \in DOMAIN e \cup {entry.key} |-> IF k = entry.key THEN entry ELSE e[k]]

\* removeStaleLocal: while the entry Peek returns has expired it is deleted
\* from the map and popped
RECURSIVE removeStaleLocal(_, _)
removeStaleLocal(e, h) ==
    IF Len(h) > 0 /\ Before(e[Peek(h)].expires, now)
    THEN removeStaleLocal(Without(e, Peek(h)), Pop(h))
    ELSE Cache(e, h)

\* SetLocal under the mutex: an entry of the key is updated in place and the
\* heap initialised anew, a new entry is pushed
SetLocal(e, h, key, item, ttl) ==
    LET c == removeStaleLocal(e, h)
        entry == cacheEntry(key, now + ttl, item)
    IN  IF key \in DOMAIN c.entries
        THEN Cache(With(c.entries, entry), heapInit(With(c.entries, entry), c.heap))
        ELSE Cache(With(c.entries, entry), heapPush(With(c.entries, entry), c.heap, key))

NoEntry == cacheEntry("", 0, "")
NoGot == [op |-> "", key |-> "", ok |-> FALSE, entry |-> NoEntry, at |-> 0]
\* responseCacheItem: the raw response to a request
responseCacheItem(ContentType, Data) == [ContentType |-> ContentType, Data |-> Data]
NoItem == responseCacheItem("", "")
\* a request inside LocalCacheMiddleware, and what the middleware did with the
\* last request: the response it wrote itself (status 0: none) and whether it
\* ran the next handler
NoFlight == [pc |-> "idle", key |-> "", ttl |-> 0]
Flight(key, ttl) == [pc |-> "next", key |-> key, ttl |-> ttl]
Served(method, key, status, item, next) ==
    [method |-> method, key |-> key, status |-> status, item |-> item, next |-> next]
NoServed == Served("", "", 0, NoItem, FALSE)
CacheStart ==
    /\ entries = <<>> /\ heap = <<>> /\ got = NoGot
    /\ flights = [s \in Slots |-> NoFlight] /\ served = NoServed
ExtStart == ClaimStart /\ CreateStart /\ RequireStart /\ SignupStart /\ CacheStart

Init ==
    /\ now = 0
    /\ users = MockUsers
    /\ AuthStart
    /\ RequestStart
    /\ SecretStart
    /\ PermStart
    /\ GateStart
    /\ ParseStart
    /\ ExtStart

\* the wall clock advances
Tick ==
    /\ now < MaxTime
    /\ now' = now + 1
    /\ UNCHANGED <<aux, swept, store, req, started, fails, sweeps,
                   ghost>>

\* the CreateAuth call of login and refresh: its store effect, the record of
\* the pair it returned, and the 500 answer when it returned an error
DoCreateAuth(s, saveOK) ==
    LET r == CreateAuth(req[s].u, saveOK)
    IN  /\ Failing(Failed(saveOK))
        /\ logins' = r.logins
        /\ nextUUID' = nextUUID + 1
        /\ nextLoginID' = IF r.logins = logins THEN nextLoginID
                          ELSE nextLoginID + 1
        /\ pairs' = IF r.accessToken = NoToken /\ r.refreshToken = NoToken
                    THEN pairs
                    ELSE pairs \cup {[access |-> r.accessToken,
                                      refresh |-> r.refreshToken,
                                      uid |-> req[s].u.ID, at |-> now]}
        /\ IF r.err
           THEN Reply(s)
           ELSE req' = [req EXCEPT ![s].access = r.accessToken,
                                   ![s].refresh = r.refreshToken,
                                   ![s].pc = "afterAuth"]
        /\ UNCHANGED <<aux, swept, now, users, started, sweeps,
                       handed, rotated, logouts, deleted, refused>>

\* ------------------------------------------------------------ login
\* request binding, the lookup by email, the verified flag and the password;
\* a request answered 4xx here leaves no trace in the state
LoginBegin(email, password) ==
    LET u == GetUserByEmail(email)
        s == FreeSlot
        status == IF u = NoUser THEN 401
                  ELSE IF ~u.Verified THEN 400
                  ELSE IF ~CompareHashAndPassword(u.Password, u.ID, password)
                       THEN 401
                  ELSE 0
    IN  /\ CanStart
        /\ started' = started + 1
        /\ req' = IF status # 0 THEN req
                  ELSE [req EXCEPT ![s] = [Idle EXCEPT !.kind = "login",
                                           !.pc = "createAuth", !.u = u]]
        /\ UNCHANGED <<aux, swept, now, store, fails, sweeps, ghost>>

LoginCreateAuth(s, saveOK) ==
    /\ req[s].kind = "login" /\ req[s].pc = "createAuth"
    /\ DoCreateAuth(s, saveOK)

\* the permission lookup, the start of the sweep goroutine and the answer
LoginFinish(s, permOK) ==
    /\ req[s].kind = "login" /\ req[s].pc = "afterAuth"
    /\ Failing(Failed(permOK))
    /\ sweeps' = IF permOK THEN [sweeps EXCEPT ![req[s].u.ID] = @ + 1]
                 ELSE sweeps
    /\ handed' = IF permOK THEN handed \cup {req[s].access, req[s].refresh}
                 ELSE handed
    /\ Reply(s)
    /\ UNCHANGED <<aux, swept, now, store, started, pairs, rotated,
                   logouts, deleted, refused>>

\* the goroutine started by login: user.DeleteExpiredLogin
Sweep(id) ==
    /\ sweeps[id] > 0
    /\ sweeps' = [sweeps EXCEPT ![id] = @ - 1]
    /\ logins' = DeleteExpiredLogin(id)
    /\ deleted' = deleted \cup {l.UUID : l \in logins \ logins'}
    /\ swept' = swept \cup (logins \ logins')
    /\ UNCHANGED <<aux, now, users, nextLoginID, nextUUID,
                   req, started, fails, pairs, handed, rotated, logouts, refused>>

\* ------------------------------------------------------------ refresh
\* request binding, JWTValidateRefreshToken and the lookup of the user
RefreshRequest(tok) ==
    LET s == FreeSlot
        login == JWTValidateRefreshToken(tok)
        u == GetUserByID(login.UserID)
    IN  /\ CanStart
        /\ started' = started + 1
        /\ req' = IF tok = NoToken \/ login = NoLogin \/ u = NoUser THEN req
                  ELSE [req EXCEPT ![s] = [Idle EXCEPT !.kind = "refresh",
                                           !.pc = "createAuth", !.tok = tok,
                                           !.login = login, !.u = u]]
        /\ UNCHANGED <<aux, swept, now, store, fails, sweeps, ghost>>

RefreshBegin == \E tok \in Presentable : RefreshRequest(tok)

RefreshCreateAuth(s, saveOK) ==
    /\ req[s].kind = "refresh" /\ req[s].pc = "createAuth"
    /\ DoCreateAuth(s, saveOK)

\* the delete of the presented session (its error is only logged), the
\* permission lookup and the answer
RefreshFinish(s, deleteOK, permOK) ==
    /\ req[s].kind = "refresh" /\ req[s].pc = "afterAuth"
    /\ Failing(Failed(deleteOK) + Failed(permOK))
    /\ logins' = IF deleteOK THEN DeleteLogin(req[s].login) ELSE logins
    /\ deleted' = deleted \cup {l.UUID : l \in logins \ logins'}
    /\ handed' = IF permOK THEN handed \cup {req[s].access, req[s].refresh}
                 ELSE handed
    /\ rotated' = IF permOK
                  THEN rotated \cup {[old |-> req[s].tok,
                                      access |-> req[s].access,
                                      refresh |-> req[s].refresh]}
                  ELSE rotated
    /\ Reply(s)
    /\ UNCHANGED <<aux, swept, now, users, nextLoginID, nextUUID,
                   started, sweeps, pairs, logouts, refused>>

\* ------------------------------------------------------------ the gate
\* JWTAuthMiddleware in front of a private endpoint: the request is let
\* through to the handler exactly when jwtAccessTokenValid returns no error;
\* u keeps the row that jwtAccessTokenValid read
Gate(kind, tok) ==
    LET s == FreeSlot
    IN  /\ CanStart
        /\ started' = started + 1
        /\ req' = IF jwtAccessTokenValid(tok) # "" THEN req
                  ELSE [req EXCEPT ![s] = [Idle EXCEPT !.kind = kind,
                                           !.pc = "getUser", !.tok = tok,
                                           !.u = JWTGetUser(tok)]]
        /\ UNCHANGED <<aux, swept, now, store, fails, sweeps, ghost>>

\* ------------------------------------------------------------ logout
LogoutBegin == \E tok \in Presentable : Gate("logout", tok)

LogoutGetUser(s) ==
    LET u == JWTGetUser(req[s].tok)
    IN  /\ req[s].kind = "logout" /\ req[s].pc = "getUser"
        /\ IF u = NoUser
           THEN Reply(s)
           ELSE req' = [req EXCEPT ![s].u = u, ![s].pc = "getLogin"]
        /\ UNCHANGED <<aux, swept, now, store, started, fails,
                       sweeps, ghost>>

\* JWTGetUserLogin: without the Login row of the token's auth_uuid the handler
\* answers 401 and returns; refused keeps these answers
LogoutGetLogin(s) ==
    LET login == JWTGetUserLogin(req[s].tok)
    IN  /\ req[s].kind = "logout" /\ req[s].pc = "getLogin"
        /\ IF login = NoLogin
           THEN /\ Reply(s)
                /\ refused' = refused \cup {[uuid |-> req[s].tok.auth_uuid,
                                              uid |-> req[s].u.ID,
                                              status |-> 401]}
           ELSE /\ req' = [req EXCEPT ![s].login = login, ![s].pc = "deleteLogin"]
                /\ UNCHANGED refused
        /\ UNCHANGED <<aux, swept, now, store, started, fails,
                       sweeps, pairs, handed, rotated, logouts, deleted>>

LogoutDeleteLogin(s, deleteOK) ==
    /\ req[s].kind = "logout" /\ req[s].pc = "deleteLogin"
    /\ Failing(Failed(deleteOK))
    /\ logins' = IF deleteOK THEN DeleteLogin(req[s].login) ELSE logins
    /\ deleted' = deleted \cup {l.UUID : l \in logins \ logins'}
    /\ IF deleteOK
       THEN req' = [req EXCEPT ![s].pc = "saveUser"]
       ELSE Reply(s)
    /\ UNCHANGED <<aux, swept, now, users, nextLoginID, nextUUID,
                   started, sweeps, pairs, handed, rotated, logouts, refused>>

\* u.LoggedOutAt = &now on the row read by LogoutGetUser, then SaveUser and
\* the 200 answer
LogoutSaveUser(s, saveOK) ==
    LET u == [req[s].u EXCEPT !.LoggedOutAt = now]
    IN  /\ req[s].kind = "logout" /\ req[s].pc = "saveUser"
        /\ Failing(Failed(saveOK))
        /\ users' = IF saveOK THEN SaveUser(u) ELSE users
        /\ logouts' = IF saveOK THEN logouts \cup {[uid |-> u.ID, at |-> now]}
                      ELSE logouts
        /\ Reply(s)
        /\ UNCHANGED <<aux, swept, now, logins, nextLoginID,
                       nextUUID, started, sweeps, refused, pairs, handed, rotated,
                       deleted>>

\* ------------------------------------------------------------ reset
ResetBegin == \E tok \in Presentable : Gate("reset", tok)

\* JWTGetUser, request binding and the password checks
ResetGetUser(s, currentPassword, newPassword) ==
    LET u == JWTGetUser(req[s].tok)
        status == IF u = NoUser THEN 401
                  ELSE IF ~CompareHashAndPassword(u.Password, u.ID, currentPassword)
                       THEN 400
                  ELSE IF currentPassword = newPassword THEN 400
                  ELSE 0
    IN  /\ req[s].kind = "reset" /\ req[s].pc = "getUser"
        /\ IF status # 0
           THEN Reply(s)
           ELSE req' = [req EXCEPT ![s].u = u, ![s].pc = "saveUser",
                                   ![s].newPassword = newPassword]
        /\ UNCHANGED <<aux, swept, now, store, started, fails,
                       sweeps, ghost>>

\* the new hash on the row read by ResetGetUser, then SaveUser
ResetSaveUser(s, saveOK) ==
    LET u == [req[s].u EXCEPT
                !.Password = GenerateFromPassword(req[s].u.ID, req[s].newPassword)]
    IN  /\ req[s].kind = "reset" /\ req[s].pc = "saveUser"
        /\ Failing(Failed(saveOK))
        /\ users' = IF saveOK THEN SaveUser(u) ELSE users
        /\ Reply(s)
        /\ UNCHANGED <<aux, swept, now, logins, nextLoginID,
                       nextUUID, started, sweeps, ghost>>

\* ------------------------------------------------------------ recovery
\* what a client can send as a secret token: the tokens mailed so far, copies
\* of them with a changed byte of the blob, an undecodable envelope or
\* payload text, another identity id or a blob cut below the nonce size, and
\* an envelope with an empty payload text
SecretForgeries(t) ==
    {t, [t EXCEPT !.sealKey = "none"],
        [t EXCEPT !.envelope = "garbage"],
        [t EXCEPT !.payloadEnc = "garbage"],
        [t EXCEPT !.UserID = UnknownUserID],
        [t EXCEPT !.len = NonceSize - 1, !.sealKey = "none", !.plaintext = ""]}
EmptyPayload(id) ==
    [NoSecret EXCEPT !.envelope = "std-json", !.UserID = id,
                     !.payloadEnc = "url", !.sealKey = "none"]
SecretInputs ==
    {EmptyPayload(id) : id \in Users} \cup UNION {SecretForgeries(t) : t \in secrets}

\* recover: the lookup by email, GenerateSecretToken over the email text, and
\* the mail that carries the token
Recover(email, nonce, mailOK) ==
    LET u == GetUserByEmail(email)
        g == GenerateSecretToken(u, u.Email, nonce)
    IN  /\ started < MaxReq
        /\ started' = started + 1
        /\ secrets' = IF u # NoUser /\ g.err = "" /\ mailOK
                      THEN secrets \cup {g.token} ELSE secrets
        /\ UNCHANGED <<now, users, authVars, req, fails, used, parsed,
                       permVars, gateVars, parseVars, extVars>>

\* the first half of recoverReset and signupVerify: ParseSecretToken and the
\* comparison of the payload with the email of the row; parsed keeps the call,
\* its result and the number of times the token had been honoured before.  A nil row with a nil
\* error is dereferenced by that comparison; the recovery middleware of
\* gin.Default answers 500
SecretRequest(kind, tok, password) ==
    LET s == FreeSlot
        r == ParseSecretToken(tok)
        status == IF r.err # "" THEN 400
                  ELSE IF r.u = NoUser THEN 500
                  ELSE IF r.payload # r.u.Email THEN 400
                  ELSE 0
    IN  /\ CanStart
        /\ started' = started + 1
        /\ parsed' = [tok |-> tok, r |-> r, status |-> status,
                      panic |-> r.err = "" /\ r.u = NoUser,
                      uses |-> Cardinality({e \in used : e.tok = tok})]
        /\ req' = IF status # 0 THEN req
                  ELSE [req EXCEPT ![s] = [Idle EXCEPT !.kind = kind,
                                           !.pc = "saveUser", !.u = r.u,
                                           !.secret = tok,
                                           !.newPassword = password]]
        /\ UNCHANGED <<now, users, authVars, fails, secrets, used,
                       permVars, gateVars, parseVars, extVars>>

RecoverResetBegin ==
    \E tok \in SecretInputs, password \in PasswordInputs :
        SecretRequest("recoverReset", tok, password)

SignupVerifyBegin == \E tok \in SecretInputs : SecretRequest("signupVerify", tok, "")

Use(s) == [tok |-> req[s].secret, by |-> req[s].kind,
           nth |-> 1 + Cardinality({e \in used : e.tok = req[s].secret})]

\* the new hash on the row ParseSecretToken returned, then SaveUser
RecoverResetSaveUser(s, saveOK) ==
    LET u == [req[s].u EXCEPT
                !.Password = GenerateFromPassword(req[s].u.ID, req[s].newPassword)]
    IN  /\ req[s].kind = "recoverReset" /\ req[s].pc = "saveUser"
        /\ Failing(Failed(saveOK))
        /\ users' = IF saveOK THEN SaveUser(u) ELSE users
        /\ used' = IF saveOK THEN used \cup {Use(s)} ELSE used
        /\ Reply(s)
        /\ UNCHANGED <<now, authVars, started, secrets, parsed,
                       permVars, gateVars, parseVars, extVars>>

\* u.Verified = true on the row ParseSecretToken returned, then SaveUser
SignupVerifySaveUser(s, saveOK) ==
    LET u == [req[s].u EXCEPT !.Verified = TRUE]
    IN  /\ req[s].kind = "signupVerify" /\ req[s].pc = "saveUser"
        /\ Failing(Failed(saveOK))
        /\ users' = IF saveOK THEN SaveUser(u) ELSE users
        /\ used' = IF saveOK THEN used \cup {Use(s)} ELSE used
        /\ Reply(s)
        /\ UNCHANGED <<now, authVars, started, secrets, parsed,
                       permVars, gateVars, parseVars, extVars>>

\* no handler rewrites a secret key after signup; this is SaveUser called with
\* a row that carries another key
SetSecretKey(id, k) ==
    /\ started < MaxReq
    /\ started' = started + 1
    /\ users[id].SecretKey # k
    /\ users' = SaveUser([users[id] EXCEPT !.SecretKey = k])
    /\ UNCHANGED <<now, authVars, req, fails, secretVars,
                   permVars, gateVars, parseVars, extVars>>

\* user 1 is a mock row, user 2 an account made by signup
InitSecret ==
    /\ now = 0
    /\ \E v \in BOOLEAN :
          users = [MockUsers EXCEPT ![2].SecretKey = "md5-a", ![2].Verified = v]
    /\ AuthStart
    /\ RequestStart
    /\ SecretStart
    /\ PermStart
    /\ GateStart
    /\ ParseStart
    /\ ExtStart

NextSecret ==
    \/ Tick
    \/ \E e \in EmailInputs, n \in Nonces, ok \in BOOLEAN : Recover(e, n, ok)
    \/ RecoverResetBegin
    \/ \E s \in Slots, ok \in BOOLEAN : RecoverResetSaveUser(s, ok)
    \/ SignupVerifyBegin
    \/ \E s \in Slots, ok \in BOOLEAN : SignupVerifySaveUser(s, ok)
    \/ \E id \in Users, k \in SecretKeys : SetSecretKey(id, k)

SpecSecret == InitSecret /\ [][NextSecret]_vars

\* ------------------------------------------------------------ permission lookup
\* sequences of at most n elements of S
SeqUpTo(S, n) == UNION {[1..k -> S] : k \in 0..n}

\* the catalog: x is private, y and z are public
Catalog == <<[ID |-> 1, Key |-> PermissionKey(1), Public |-> FALSE],
             [ID |-> 2, Key |-> PermissionKey(2), Public |-> TRUE],
             [ID |-> 3, Key |-> PermissionKey(3), Public |-> TRUE]>>

\* a call of GetUserPermissions for a stored user
PermissionRequest(id, public) ==
    /\ granted' = [uid |-> id, public |-> public,
                   r |-> GetUserPermissions(users[id], public)]
    /\ UNCHANGED <<now, users, authVars, requestVars, secretVars,
                   permissions, userPermissions, userRoles, rolePermissions,
                   gateVars, parseVars, extVars>>

InitPerm ==
    /\ now = 0
    /\ users = MockUsers
    /\ AuthStart
    /\ RequestStart
    /\ SecretStart
    /\ permissions = Catalog
    /\ userPermissions \in SeqUpTo([UserID : Users, PermissionID : PermIDs], MaxRows)
    /\ userRoles \in SeqUpTo([UserID : Users, RoleID : RoleIDs], MaxRows)
    /\ rolePermissions \in SeqUpTo([RoleID : RoleIDs, PermissionID : PermIDs], MaxRows)
    /\ granted = NoGrant
    /\ GateStart
    /\ ParseStart
    /\ ExtStart

NextPerm == \E id \in Users, public \in PublicArgs : PermissionRequest(id, public)

SpecPerm == InitPerm /\ [][NextPerm]_vars

\* ------------------------------------------------------------ gate answers
\* access tokens of every make: each algorithm family, signed under either
\* service key or not at all, with claims of the right and of the wrong shape
GateTokens ==
    {NoToken} \cup
    [alg : {"HS256", "RS256", "none"}, key : {accessKey, refreshKey, ""},
     auth_uuid : {1}, user_id : {1, UnknownUserID, WrongShape},
     created_at : {0, 1}, expires_at : {0, 1, WrongShape}]

\* why a request cannot pass, read off the request and the store
Cause(tok, storeOK) ==
    IF tok = NoToken THEN "missing token"
    ELSE IF tok.alg \notin HMACFamily \/ tok.key # accessKey
         THEN "signature or algorithm"
    ELSE IF ~ClaimsOK(tok) THEN "claim shape"
    ELSE IF ~storeOK THEN "store error"
    ELSE IF tok.user_id \notin DOMAIN users THEN "unknown identity"
    ELSE IF FromUnix(tok.expires_at) < now THEN "expired"
    ELSE IF users[tok.user_id].LoggedOutAt # Nil
            /\ FromUnix(tok.created_at) < users[tok.user_id].LoggedOutAt
         THEN "issued before logout"
    ELSE ""

\* a request to a private endpoint passes through the middleware
GateRequest(tok, storeOK) ==
    LET a == JWTAuthMiddleware(tok, storeOK)
    IN  /\ started < MaxReq
        /\ started' = started + 1
        /\ answers' = answers \cup {[cause |-> Cause(tok, storeOK),
                                      status |-> a.status,
                                      message |-> a.message, next |-> a.next]}
        /\ UNCHANGED <<now, users, authVars, req, fails, secretVars, permVars,
                       parseVars, extVars>>

\* what a completed logout leaves in the user row
StampLoggedOut(id) ==
    /\ users[id].LoggedOutAt # now
    /\ users' = SaveUser([users[id] EXCEPT !.LoggedOutAt = now])
    /\ UNCHANGED <<now, authVars, requestVars, secretVars, permVars,
                   gateVars, parseVars, extVars>>

NextGate ==
    \/ Tick
    \/ \E id \in Users : StampLoggedOut(id)
    \/ \E tok \in GateTokens, ok \in BOOLEAN : GateRequest(tok, ok)

SpecGate == Init /\ [][NextGate]_vars

\* ------------------------------------------------------------ token parsing
\* tokens of every algorithm family and key, for either parser
ParseTokens ==
    {NoToken} \cup
    [alg : HMACFamily \cup {"RS256", "ES256", "none"},
     key : {accessKey, refreshKey, "attacker-key", ""},
     auth_uuid : {1, WrongShape}, user_id : {1, WrongShape},
     created_at : {0, WrongShape}, expires_at : {1, WrongShape}]

\* a call of jwtGetAccessMetadata or jwtGetRefreshMetadata
ParseRequest(role, tok) ==
    /\ meta' = [role |-> role, tok |-> tok,
                r |-> IF role = "access" THEN jwtGetAccessMetadata(tok)
                      ELSE jwtGetRefreshMetadata(tok)]
    /\ UNCHANGED <<now, users, authVars, requestVars, secretVars, permVars,
                   gateVars, extVars>>

NextParse == \E role \in {"access", "refresh"}, tok \in ParseTokens : ParseRequest(role, tok)

SpecParse == Init /\ [][NextParse]_vars

\* ------------------------------------------------------------ claim extraction
\* the values a claim of a signed token may hold: numbers whole and fractional,
\* strings that spell an integer and strings that do not, the other JSON types
\* and no value at all
NumberInputs == {JSONNumber(t) : t \in {0, 10, 20, 15, -10, -15}}
StringInputs ==
    {JSONString(str) : str \in {<<>>, <<"1">>, <<"2">>, <<"1", "7">>, <<"-", "1">>,
                                <<"+", "2">>, <<"x">>, <<"1", "x">>, <<"-">>,
                                <<"1", ".", "0">>}}
OtherInputs == {JSONOther(type) : type \in {"absent", "bool", "null", "object"}}
IntClaimInputs == NumberInputs \cup StringInputs \cup OtherInputs
UUIDInputs ==
    {JSONString(<<"x">>), JSONString(<<>>), JSONNumber(10), JSONOther("absent"),
     JSONOther("bool")}
ClaimInputs ==
    {c \in [ClaimKeys -> IntClaimInputs \cup UUIDInputs] :
        /\ c["auth_uuid"] \in UUIDInputs
        /\ \A k \in ClaimKeys \ {"auth_uuid"} : c[k] \in IntClaimInputs}

\* jwtGetAccessMetadata or jwtGetRefreshMetadata on a token that jwt.Parse
\* accepted under the key of its role
ClaimsRequest ==
    /\ ~claimed.done
    /\ claimed' = [claimed EXCEPT !.done = TRUE, !.r = jwtClaimsMetadata(claimed.claims)]
    /\ UNCHANGED <<now, users, authVars, requestVars, secretVars, permVars,
                   gateVars, parseVars, createVars, requireVars, signupVars,
                   cacheVars>>

InitClaims ==
    /\ now = 0
    /\ users = MockUsers
    /\ AuthStart
    /\ RequestStart
    /\ SecretStart
    /\ PermStart
    /\ GateStart
    /\ ParseStart
    /\ \E role \in {"access", "refresh"}, c \in ClaimInputs :
           claimed = [NoClaimed EXCEPT !.role = role, !.claims = c]
    /\ CreateStart
    /\ RequireStart
    /\ SignupStart
    /\ CacheStart

NextClaims == ClaimsRequest

SpecClaims == InitClaims /\ [][NextClaims]_vars

\* ------------------------------------------------------------ start-up creation
MaxCalls == 2
RoleKeyLists == SeqUpTo(RoleKeys, 2)
Database == DB(permissions, rolePermissions, roleRows)

\* a call of CreatePermission, as CreatePublicPermissions and
\* CreatePrivatePermissions make it
DoCreatePermission(permissionKey, public, roleKeys, fail) ==
    LET r == CreatePermission(Database, permissionKey, public, roleKeys, fail)
    IN  /\ created.calls < MaxCalls
        /\ permissions' = r.db.permissions
        /\ rolePermissions' = r.db.rolePermissions
        /\ roleRows' = r.db.roles
        /\ created' = [calls |-> created.calls + 1, op |-> "CreatePermission",
                       key |-> permissionKey, public |-> public,
                       roleKeys |-> roleKeys, fail |-> fail, err |-> r.err,
                       before |-> Database]
        /\ UNCHANGED <<now, users, authVars, requestVars, secretVars,
                       userPermissions, userRoles, granted, gateVars, parseVars,
                       claimed, requireVars, signupVars, cacheVars>>

\* a call of CreateRole, as CreateRoles makes it
DoCreateRole(roleKey, getOK, saveOK) ==
    LET r == CreateRole(Database, roleKey, getOK, saveOK)
    IN  /\ created.calls < MaxCalls
        /\ roleRows' = r.db.roles
        /\ created' = [calls |-> created.calls + 1, op |-> "CreateRole",
                       key |-> roleKey, public |-> FALSE, roleKeys |-> <<>>,
                       fail |-> NoFailure, err |-> r.err, before |-> Database]
        /\ UNCHANGED <<now, users, authVars, requestVars, secretVars, permVars,
                       gateVars, parseVars, claimed, requireVars, signupVars,
                       cacheVars>>

InitCreate ==
    /\ now = 0
    /\ users = MockUsers
    /\ AuthStart
    /\ RequestStart
    /\ SecretStart
    /\ PermStart
    /\ GateStart
    /\ ParseStart
    /\ ClaimStart
    /\ roleRows = <<[ID |-> 1, Key |-> "r1"], [ID |-> 2, Key |-> "r2"]>>
    /\ created = NoCreated
    /\ RequireStart
    /\ SignupStart
    /\ CacheStart

NextCreate ==
    \/ \E k \in PermissionKeys, public \in BOOLEAN, rks \in RoleKeyLists, fail \in Failures :
           DoCreatePermission(k, public, rks, fail)
    \/ \E rk \in RoleKeys, getOK \in BOOLEAN, saveOK \in BOOLEAN :
           DoCreateRole(rk, getOK, saveOK)

SpecCreate == InitCreate /\ [][NextCreate]_vars

\* ------------------------------------------------------------ permission checks
MaxGrants == 1
\* bearer tokens: none, unsigned, and signed ones naming the admin, the plain
\* user and nobody
RequireTokens ==
    {NoToken} \cup
    [alg : {"HS256", "none"}, key : {accessKey}, auth_uuid : {1},
     user_id : {1, 2, UnknownUserID}, created_at : {0}, expires_at : {1}]

\* a request to a route behind one of the two permission middlewares
RequireRequest(mw, tok, permissionKeys, userOK, permOK) ==
    /\ required = NoRequired
    /\ required' = [mw |-> mw, tok |-> tok, permissionKeys |-> permissionKeys,
                    userOK |-> userOK, permOK |-> permOK,
                    a |-> IF mw = "all"
                          THEN RequireAllPermissionsMiddleware(tok, permissionKeys,
                                                               userOK, permOK)
                          ELSE RequireAnyPermissionsMiddleware(tok, permissionKeys,
                                                               userOK, permOK)]
    /\ UNCHANGED <<now, users, authVars, requestVars, secretVars, permVars,
                   gateVars, parseVars, claimed, createVars, signupVars,
                   cacheVars>>

InitRequire ==
    /\ now = 0
    /\ users = MockUsers
    /\ AuthStart
    /\ RequestStart
    /\ SecretStart
    /\ permissions = Catalog
    /\ userPermissions \in SeqUpTo([UserID : Users, PermissionID : PermIDs], MaxGrants)
    /\ userRoles \in SeqUpTo([UserID : Users, RoleID : RoleIDs], MaxGrants)
    /\ rolePermissions \in SeqUpTo([RoleID : RoleIDs, PermissionID : PermIDs], MaxGrants)
    /\ granted = NoGrant
    /\ GateStart
    /\ ParseStart
    /\ ExtStart

NextRequire ==
    \E mw \in {"all", "any"}, tok \in RequireTokens,
       permissionKeys \in SeqUpTo(PermissionKeys, 2), userOK \in BOOLEAN,
       permOK \in BOOLEAN :
        RequireRequest(mw, tok, permissionKeys, userOK, permOK)

SpecRequire == InitRequire /\ [][NextRequire]_vars

\* ------------------------------------------------------------ behaviours
Next ==
    \/ Tick
    \/ \E e \in EmailInputs, p \in PasswordInputs : LoginBegin(e, p)
    \/ \E s \in Slots, ok \in BOOLEAN : LoginCreateAuth(s, ok)
    \/ \E s \in Slots, ok \in BOOLEAN : LoginFinish(s, ok)
    \/ \E id \in Users : Sweep(id)
    \/ RefreshBegin
    \/ \E s \in Slots, ok \in BOOLEAN : RefreshCreateAuth(s, ok)
    \/ \E s \in Slots, d \in BOOLEAN, ok \in BOOLEAN : RefreshFinish(s, d, ok)
    \/ LogoutBegin
    \/ \E s \in Slots : LogoutGetUser(s)
    \/ \E s \in Slots : LogoutGetLogin(s)
    \/ \E s \in Slots, ok \in BOOLEAN : LogoutDeleteLogin(s, ok)
    \/ \E s \in Slots, ok \in BOOLEAN : LogoutSaveUser(s, ok)
    \/ ResetBegin
    \/ \E s \in Slots, c \in PasswordInputs, n \in PasswordInputs : ResetGetUser(s, c, n)
    \/ \E s \in Slots, ok \in BOOLEAN : ResetSaveUser(s, ok)

Spec == Init /\ [][Next]_vars

\* ------------------------------------------------------------ login only
\* the login route alone, over user rows that are verified or not
InitLogin ==
    /\ now = 0
    /\ \E verified \in [Users -> BOOLEAN] :
           users = [id \in Users |-> [MockUsers[id] EXCEPT !.Verified = verified[id]]]
    /\ AuthStart
    /\ RequestStart
    /\ SecretStart
    /\ PermStart
    /\ GateStart
    /\ ParseStart
    /\ ExtStart

NextLogin ==
    \/ Tick
    \/ \E e \in EmailInputs, p \in PasswordInputs : LoginBegin(e, p)
    \/ \E s \in Slots, ok \in BOOLEAN : LoginCreateAuth(s, ok)
    \/ \E s \in Slots, ok \in BOOLEAN : LoginFinish(s, ok)
    \/ \E id \in Users : Sweep(id)

SpecLogin == InitLogin /\ [][NextLogin]_vars

\* ------------------------------------------------------------ signup
SignupEmails == {"a@x", "b@x", "c@x", "C@x"}
rest == <<now, authVars, secretVars, permVars, gateVars, parseVars, claimed,
          createVars, requireVars, cacheVars>>

\* request binding and the lookup by email, before the transaction begins; a
\* verified account of that email ends the request with 400
SignupBegin(email, password) ==
    LET u == GetUserByEmail(email)
        s == FreeSlot
    IN  /\ CanStart
        /\ started' = started + 1
        /\ req' = IF u # NoUser /\ u.Verified THEN req
                  ELSE [req EXCEPT ![s] =
                          [Idle EXCEPT !.kind = "signup",
                                       !.pc = IF u = NoUser THEN "insert" ELSE "password",
                                       !.u = IF u = NoUser THEN [NoUser EXCEPT !.Email = email]
                                             ELSE u,
                                       !.newPassword = password]]
        /\ UNCHANGED <<rest, users, fails, signupVars>>

\* the account record is created on the transaction under a fresh secret key;
\* an error rolls back and answers 500
SignupInsert(s, secretKey, saveOK) ==
    LET u == [req[s].u EXCEPT !.ID = nextUserID, !.SecretKey = secretKey]
        ok == saveOK /\ ~EmailTaken(u)
    IN  /\ req[s].kind = "signup" /\ req[s].pc = "insert"
        /\ Failing(Failed(saveOK))
        /\ nextUserID' = IF ok THEN nextUserID + 1 ELSE nextUserID
        /\ users' = IF ok THEN SaveUserTx(u) ELSE users
        /\ req' = IF ok THEN [req EXCEPT ![s].pc = "password", ![s].u = u]
                  ELSE [req EXCEPT ![s] = Idle]
        /\ UNCHANGED <<rest, started, outbox>>

\* the password is hashed with the key of the row and saved on the transaction
SignupPassword(s, saveOK) ==
    LET u == [req[s].u EXCEPT !.Password = GenerateFromPassword(req[s].u.ID,
                                                                req[s].newPassword)]
    IN  /\ req[s].kind = "signup" /\ req[s].pc = "password"
        /\ Failing(Failed(saveOK))
        /\ users' = IF saveOK THEN SaveUserTx(u) ELSE users
        /\ req' = IF saveOK THEN [req EXCEPT ![s].pc = "token", ![s].u = u]
                  ELSE [req EXCEPT ![s] = Idle]
        /\ UNCHANGED <<rest, started, signupVars>>

\* the verification token is generated over the email and mailed; an error of
\* either rolls back
SignupSend(s, nonce, mailOK) ==
    LET g == GenerateSecretToken(req[s].u, req[s].u.Email, nonce)
        ok == g.err = "" /\ mailOK
    IN  /\ req[s].kind = "signup" /\ req[s].pc = "token"
        /\ Failing(Failed(mailOK))
        /\ outbox' = IF ok THEN outbox \cup {[to |-> req[s].u.Email, uid |-> req[s].u.ID,
                                              token |-> g.token]}
                     ELSE outbox
        /\ req' = IF ok THEN [req EXCEPT ![s].pc = "commit"]
                  ELSE [req EXCEPT ![s] = Idle]
        /\ UNCHANGED <<rest, users, started, nextUserID>>

\* the commit makes the row of the transaction the row of the table; a commit
\* that fails leaves the table as it was
SignupCommit(s, commitOK) ==
    LET ok == commitOK /\ ~EmailTaken(req[s].u)
    IN  /\ req[s].kind = "signup" /\ req[s].pc = "commit"
        /\ Failing(Failed(commitOK))
        /\ users' = IF ok THEN SaveUser(req[s].u) ELSE users
        /\ Reply(s)
        /\ UNCHANGED <<rest, started, signupVars>>

\* user 2 is a plain account; its row is verified or not, its secret key the
\* text of the mock data or a key signup generated
InitSignup ==
    /\ now = 0
    /\ \E verified \in BOOLEAN, secretKey \in {mockSecretKey, "md5-a"} :
           users = [MockUsers EXCEPT ![2].Verified = verified,
                                     ![2].SecretKey = secretKey]
    /\ AuthStart
    /\ RequestStart
    /\ SecretStart
    /\ PermStart
    /\ GateStart
    /\ ParseStart
    /\ ExtStart

NextSignup ==
    \/ \E e \in SignupEmails, p \in PasswordInputs : SignupBegin(e, p)
    \/ \E s \in Slots, k \in MD5Keys, ok \in BOOLEAN : SignupInsert(s, k, ok)
    \/ \E s \in Slots, ok \in BOOLEAN : SignupPassword(s, ok)
    \/ \E s \in Slots, n \in Nonces, ok \in BOOLEAN : SignupSend(s, n, ok)
    \/ \E s \in Slots, ok \in BOOLEAN : SignupCommit(s, ok)

SpecSignup == InitSignup /\ [][NextSignup]_vars

\* ------------------------------------------------------------ cache operations
TTLs == {1, 3}
Items == {"v", "w"}

\* a call of SetLocal
DoSetLocal(key, item, ttl) ==
    LET c == SetLocal(entries, heap, key, item, ttl)
    IN  /\ entries' = c.entries
        /\ heap' = c.heap
        /\ got' = [op |-> "SetLocal", key |-> key, ok |-> FALSE, entry |-> NoEntry,
                   at |-> now]
        /\ UNCHANGED <<now, users, authVars, requestVars, secretVars, permVars,
                       gateVars, parseVars, claimed, createVars, requireVars,
                       signupVars, flights, served>>

\* a call of GetLocal: stale entries are removed, then the map is read
DoGetLocal(key) ==
    LET c == removeStaleLocal(entries, heap)
        ok == key \in DOMAIN c.entries
    IN  /\ entries' = c.entries
        /\ heap' = c.heap
        /\ got' = [op |-> "GetLocal", key |-> key, ok |-> ok,
                   entry |-> IF ok THEN c.entries[key] ELSE NoEntry, at |-> now]
        /\ UNCHANGED <<now, users, authVars, requestVars, secretVars, permVars,
                       gateVars, parseVars, claimed, createVars, requireVars,
                       signupVars, flights, served>>

NextCache ==
    \/ Tick
    \/ \E key \in CacheKeys, item \in Items, ttl \in TTLs : DoSetLocal(key, item, ttl)
    \/ \E key \in CacheKeys : DoGetLocal(key)

SpecCache == Init /\ [][NextCache]_vars

\* ------------------------------------------------- secret-token flows
\* the secret tokens a mailbox holds: the verification mails of signup and the
\* mails of recover
SignupIssued == {m.token : m \in outbox}
Mailbox == secrets \cup SignupIssued

\* user 2 has signed up and has not verified yet: its row carries the key
\* signup generated and its verification mail is in the outbox
InitFlows ==
    /\ now = 0
    /\ users = [MockUsers EXCEPT ![2].SecretKey = "md5-a", ![2].Verified = FALSE]
    /\ AuthStart
    /\ RequestStart
    /\ SecretStart
    /\ PermStart
    /\ GateStart
    /\ ParseStart
    /\ ClaimStart /\ CreateStart /\ RequireStart /\ CacheStart
    /\ nextUserID = Cardinality(Users) + 1
    /\ \E n \in Nonces :
          outbox = {[to |-> users[2].Email, uid |-> 2,
                     token |-> GenerateSecretToken(users[2], users[2].Email, n).token]}

RecoverResetMailed ==
    \E tok \in Mailbox, password \in PasswordInputs :
        SecretRequest("recoverReset", tok, password)
SignupVerifyMailed == \E tok \in Mailbox : SecretRequest("signupVerify", tok, "")

NextFlows ==
    \/ \E e \in EmailInputs, n \in Nonces, ok \in BOOLEAN : Recover(e, n, ok)
    \/ RecoverResetMailed
    \/ \E s \in Slots, ok \in BOOLEAN : RecoverResetSaveUser(s, ok)
    \/ SignupVerifyMailed
    \/ \E s \in Slots, ok \in BOOLEAN : SignupVerifySaveUser(s, ok)

SpecFlows == InitFlows /\ [][NextFlows]_vars

\* ------------------------------------------------------- response cache
Methods == {"GET", "POST"}
Paths == {"k1", "k2"}
Responses == {responseCacheItem("application/json", "b1"),
              responseCacheItem("text/plain", "b2")}
others == <<users, authVars, requestVars, secretVars, permVars, gateVars,
            parseVars, claimed, createVars, requireVars, signupVars>>

\* LocalCacheMiddleware(ttl) up to c.Next: a request that is not a GET goes on
\* to the next handler; a GET is answered from the cache when GetLocal finds
\* its key, and goes on to the next handler otherwise.  The cache holds
\* responseCacheItems only, so the type assertion on the item succeeds.
LocalCacheMiddleware(s, method, key, ttl) ==
    /\ flights[s] = NoFlight
    /\ IF method # "GET"
       THEN /\ served' = Served(method, key, 0, NoItem, TRUE)
            /\ UNCHANGED <<entries, heap, got, flights>>
       ELSE LET c == removeStaleLocal(entries, heap)
                ok == key \in DOMAIN c.entries
            IN  /\ entries' = c.entries
                /\ heap' = c.heap
                /\ got' = [op |-> "GetLocal", key |-> key, ok |-> ok,
                           entry |-> IF ok THEN c.entries[key] ELSE NoEntry,
                           at |-> now]
                /\ IF ok
                   THEN /\ served' = Served(method, key, 200, c.entries[key].item, FALSE)
                        /\ UNCHANGED flights
                   ELSE /\ flights' = [flights EXCEPT ![s] = Flight(key, ttl)]
                        /\ served' = Served(method, key, 0, NoItem, TRUE)
    /\ UNCHANGED <<now, others>>

\* the next handler has written its response: the middleware caches it
LocalCacheMiddlewareStore(s, resp) ==
    /\ flights[s].pc = "next"
    /\ LET c == SetLocal(entries, heap, flights[s].key, resp, flights[s].ttl)
       IN  /\ entries' = c.entries
           /\ heap' = c.heap
           /\ got' = [op |-> "SetLocal", key |-> flights[s].key, ok |-> FALSE,
                      entry |-> NoEntry, at |-> now]
    /\ flights' = [flights EXCEPT ![s] = NoFlight]
    /\ UNCHANGED <<served, now, others>>

NextMiddleware ==
    \/ Tick
    \/ \E s \in Slots, method \in Methods, key \in Paths, ttl \in TTLs :
          LocalCacheMiddleware(s, method, key, ttl)
    \/ \E s \in Slots, resp \in Responses : LocalCacheMiddlewareStore(s, resp)

SpecMiddleware == Init /\ [][NextMiddleware]_vars

\* ------------------------------------------------------------ properties
ValidatesRefresh(tok) == JWTValidateRefreshToken(tok) # NoLogin
PassesGate(tok) == jwtAccessTokenValid(tok) = ""
Admitted(s, kind) == req[s] = Idle /\ req'[s].kind = kind
NotBefore(a, b) == ~Before(a, b)

\* C1: once refresh has answered 200 for a refresh token R, R never passes
\* JWTValidateRefreshToken again, also when a store call of that refresh failed
C1_ReplayRejected == \A r \in rotated : ~ValidatesRefresh(r.old)

\* C2: of all refresh requests that present the same refresh token at most
\* one is answered with a new pair
C2_RedeemedOnce == \A a, b \in rotated : a.old = b.old => a = b

\* C3: during and after a successful refresh the old and the new refresh
\* token never both validate, and the old session is never gone while the
\* new one does not exist
C3_RotationAtomic ==
    /\ \A s \in Slots :
         req[s].kind = "refresh" /\ req[s].pc = "afterAuth"
         => ~(ValidatesRefresh(req[s].tok) /\ ValidatesRefresh(req[s].refresh))
    /\ \A r \in rotated : ~(ValidatesRefresh(r.old) /\ ValidatesRefresh(r.refresh))
    /\ \A s \in Slots :
         req[s].kind = "refresh" /\ req[s].pc = "createAuth"
         => \E l \in logins : l.UUID = req[s].login.UUID

\* C4: after logout has answered 200 for identity u, every access token of u
\* issued before that logout is rejected by the gate, whatever its session
C4_GlobalLogout ==
    \A lo \in logouts, p \in pairs :
        p.uid = lo.uid /\ p.at < lo.at => ~PassesGate(p.access)

\* C5: an access token issued by a CreateAuth call strictly later than every
\* completed logout of its identity passes the gate until it expires
C5_ReloginAfterLogout ==
    \A p \in pairs :
        /\ \E lo \in logouts : lo.uid = p.uid
        /\ \A lo \in logouts : lo.uid = p.uid => lo.at < p.at
        /\ NotBefore(FromUnix(p.access.expires_at), now)
        => PassesGate(p.access)

\* C6: the gate lets a request through only if its token verifies under the
\* access key, names an existing identity, is not expired, and was not
\* created before that identity's logged-out-at
C6_AccessGate ==
    [][\A s \in Slots :
         Admitted(s, "logout") \/ Admitted(s, "reset")
         => LET tok == req'[s].tok
            IN  /\ tok.alg \in HMACFamily /\ tok.key = accessKey
                /\ tok.user_id \in DOMAIN users
                /\ NotBefore(FromUnix(tok.expires_at), now)
                /\ \/ users[tok.user_id].LoggedOutAt = Nil
                   \/ NotBefore(FromUnix(tok.created_at),
                                users[tok.user_id].LoggedOutAt)]_vars
C6_Witness ==
    \E s \in Slots :
        /\ req[s].pc = "getUser"
        /\ req[s].u.LoggedOutAt # Nil

\* C7 as stated: refresh validation returns a Login only if the token verifies
\* under the refresh key, its Login row exists, and the signed expiry and the
\* row's expiry are both in the future
C7_RefreshValidStrict ==
    [][\A s \in Slots :
         Admitted(s, "refresh")
         => LET tok == req'[s].tok
            IN  /\ tok.alg \in HMACFamily /\ tok.key = refreshKey
                /\ req'[s].login \in logins
                /\ req'[s].login.UUID = tok.auth_uuid
                /\ FromUnix(tok.expires_at) > now
                /\ req'[s].login.ExpiresAt > now]_vars

\* C7 amended: as above, with neither the signed expiry nor the row's expiry
\* before the current time
C7_RefreshValid ==
    [][\A s \in Slots :
         Admitted(s, "refresh")
         => LET tok == req'[s].tok
            IN  /\ tok.alg \in HMACFamily /\ tok.key = refreshKey
                /\ req'[s].login \in logins
                /\ req'[s].login.UUID = tok.auth_uuid
                /\ NotBefore(FromUnix(tok.expires_at), now)
                /\ NotBefore(req'[s].login.ExpiresAt, now)]_vars
C7_Witness ==
    \E s \in Slots :
        /\ req[s].kind = "refresh"
        /\ FromUnix(req[s].tok.expires_at) > req[s].login.ExpiresAt

\* C8: a CreateAuth call either returns a pair and inserts exactly one Login
\* row for it, or returns an error, no pair, and leaves the table unchanged
C8_IssuanceAllOrNothing ==
    [][nextUUID' # nextUUID
       => \/ /\ pairs' = pairs
             /\ logins' = logins
             /\ \E s \in Slots : req[s].pc = "createAuth" /\ req'[s] = Idle
          \/ \E p \in pairs' \ pairs, l \in logins' \ logins :
                /\ pairs' = pairs \cup {p}
                /\ logins' = logins \cup {l}
                /\ p.access # NoToken /\ p.refresh # NoToken
                /\ l.UserID = p.uid
                /\ l.UUID = nextUUID
                /\ p.access.auth_uuid = l.UUID /\ p.refresh.auth_uuid = l.UUID
                /\ l.ExpiresAt = now + Hours(refreshExpirationHours)
                /\ \E s \in Slots :
                      /\ req[s].pc = "createAuth"
                      /\ req'[s].access = p.access
                      /\ req'[s].refresh = p.refresh]_vars
C8_Witness == nextUUID > nextLoginID /\ pairs # {}

\* C9: the access token returned by CreateAuth passes the gate in the state
\* CreateAuth leaves, and resolves to the identity it was issued for
C9_IssueThenGate ==
    [][\A p \in pairs' \ pairs :
         /\ PassesGate(p.access)'
         /\ JWTGetUser(p.access)'.ID = p.uid]_vars

\* C10: at most one Login row per correlation token, and a correlation token
\* whose row was deleted has no row and validates no refresh token again
C10_SessionStore ==
    /\ \A l, m \in logins : l.UUID = m.UUID => l = m
    /\ \A d \in deleted : \A l \in logins : l.UUID # d
    /\ \A p \in pairs : \A t \in Forgeries(p.refresh) :
         t.auth_uuid \in deleted => ~ValidatesRefresh(t)
C10_Witness ==
    \E d \in deleted, l \in logins, p \in pairs :
        p.refresh.auth_uuid = d /\ l.UUID > d

\* C18: the sweep changes the outcome of JWTValidateRefreshToken for no
\* refresh token: a Login row whose expiry has passed is rejected while it is
\* still stored, the sweep removes only such rows, and every token validates
\* exactly as it would with the swept rows still in the table
SweepStep == \E id \in Users : sweeps'[id] < sweeps[id]
ValidatesWith(rows, tok) ==
    /\ ~jwtGetRefreshMetadata(tok).err
    /\ \E l \in rows :
         /\ l.UUID = tok.auth_uuid
         /\ ~Before(FromUnix(tok.expires_at), now)
         /\ ~Before(l.ExpiresAt, now)
C18_SweepHarmless ==
    /\ [](\A p \in pairs : \A t \in Forgeries(p.refresh) :
            /\ (\E l \in logins : l.UUID = t.auth_uuid /\ Before(l.ExpiresAt, now))
               => ~ValidatesRefresh(t)
            /\ ValidatesRefresh(t) <=> ValidatesWith(logins \cup swept, t))
    /\ [][SweepStep
          => /\ \A l \in logins \ logins' : Before(l.ExpiresAt, now)
             /\ \A p \in pairs : \A t \in Forgeries(p.refresh) :
                  ValidatesRefresh(t)' <=> ValidatesRefresh(t)]_vars
C18_Witness ==
    \E l \in swept, p \in pairs :
        /\ p.refresh.auth_uuid = l.UUID
        /\ \E m \in logins : m.UserID = l.UserID

\* ------------------------------------------------- secret token properties
PayloadInputs == {"", "a@x", "b@x"}
Sealed(t) == t \in secrets
KeyOf(t) == users[t.UserID].SecretKey

C12_DecodeFailsClosed ==
    LET t == parsed.tok
        r == parsed.r
    IN  /\ r.err = ""
           => /\ r.u # NoUser
              /\ r.u.ID = t.UserID
              /\ r.payload = t.plaintext
              /\ r.u.SecretKey = t.sealKey
        /\ \/ t.envelope # "std-json"
           \/ t.UserID \notin DOMAIN users
           \/ t.len < NonceSize
           \/ t.sealKey = "none"
           => r.err # "" /\ r.u = NoUser /\ r.payload = ""

\* C13: a token sealed for identity u under key k does not decode while u's
\* stored secret key differs from k
C13_KeyChangeRevokes ==
    \A t \in secrets : KeyOf(t) # t.sealKey => ParseSecretToken(t).err # ""
C13_Witness ==
    \E t \in secrets :
        /\ KeyOf(t) # t.sealKey
        /\ parsed.tok = t
        /\ parsed.r.err # ""

\* C14: ParseSecretToken writes nothing to the store, and a token that was
\* honoured once decodes again and is accepted by recoverReset again, however
\* often it was used and whatever time has passed, while the identity keeps
\* the secret key
C14_NoExpiryNoSingleUse ==
    /\ [](\A e \in used :
            KeyOf(e.tok) = e.tok.sealKey
            => /\ ParseSecretToken(e.tok)
                    = SecretResult(users[e.tok.UserID], e.tok.plaintext, "")
               /\ e.tok.plaintext = users[e.tok.UserID].Email)
    /\ [][parsed' # parsed => users' = users]_vars
C14_Witness ==
    \E a, b \in used :
        /\ a.tok = b.tok
        /\ a.by = "recoverReset" /\ b.by = "recoverReset"
        /\ a.nth = 1 /\ b.nth = 2
        /\ parsed.tok = b.tok /\ parsed.uses = 1 /\ parsed.r.err = ""
        /\ now > 0

\* ------------------------------------------------- permission properties
Range(q) == {q[i] : i \in 1..Len(q)}
Once(q) == \A i, j \in 1..Len(q) : q[i].Key = q[j].Key => i = j
Direct(id, public) == ListPermissionByUser(id, public)
\* the permissions of the roles of id, role by role in load order
RECURSIVE RoleDerived(_, _)
RoleDerived(roles, public) ==
    IF roles = <<>> THEN <<>>
    ELSE ListPermissionByRole(Head(roles), public) \o RoleDerived(Tail(roles), public)
\* q lists the keys of r in the order of their first occurrence in r
FirstSeen(q, r) ==
    /\ Keys(q) = Keys(r)
    /\ \A i, j \in 1..Len(q) :
         i < j => (CHOOSE k \in 1..Len(r) : r[k].Key = q[i].Key /\ \A m \in 1..(k - 1) : r[m].Key # q[i].Key)
                  < (CHOOSE k \in 1..Len(r) : r[k].Key = q[j].Key /\ \A m \in 1..(k - 1) : r[m].Key # q[j].Key)

\* C15: for an admin, GetUserPermissions(admin, nil) is the whole catalog,
\* whatever grants and memberships are recorded for the admin, and no grant
\* table is read for it
C15_AdminCatalog ==
    /\ \A id \in DOMAIN users :
         users[id].Admin
         => GetUserPermissions(users[id], "nil") = Grant(permissions, <<"ListPermission">>)
    /\ granted.uid \in DOMAIN users /\ users[granted.uid].Admin /\ granted.public = "nil"
       => granted.r = Grant(permissions, <<"ListPermission">>)
C15_Witness ==
    /\ granted.uid \in DOMAIN users /\ users[granted.uid].Admin
    /\ granted.public = "nil"
    /\ \E i \in 1..Len(userPermissions) : userPermissions[i].UserID = granted.uid
    /\ \E i \in 1..Len(userRoles) : userRoles[i].UserID = granted.uid
    /\ Range(granted.r.permissions)
         # Range(GetUserPermissions_NoAdmin(users[granted.uid], "nil").permissions)

\* C16: for a non-admin, GetUserPermissions returns the union of the direct
\* grants and the grants of every assigned role, each key once also when a
\* join table repeats a row, direct grants first, in first-seen order
C16_UnionOnce ==
    granted.uid \in DOMAIN users /\ ~users[granted.uid].Admin
    => LET q == granted.r.permissions
           all == Direct(granted.uid, granted.public)
                    \o RoleDerived(ListRoleByUser(granted.uid), granted.public)
       IN  /\ Range(q) = Range(all)
           /\ Once(q)
           /\ FirstSeen(q, all)

\* C17: with publicOnly = true GetUserPermissions returns public permissions
\* only, and every public permission of the unfiltered result
C17_PublicOnly ==
    /\ \A id \in DOMAIN users :
         LET f == GetUserPermissions(users[id], "true").permissions
             a == GetUserPermissions(users[id], "nil").permissions
         IN  /\ \A p \in Range(f) : p.Public
             /\ Range(f) = {p \in Range(a) : p.Public}
    /\ granted.public = "true" => \A p \in Range(granted.r.permissions) : p.Public
C17_Witness ==
    /\ granted.uid \in DOMAIN users /\ ~users[granted.uid].Admin
    /\ granted.public = "true"
    /\ Keys(granted.r.permissions) = {"y"}
    /\ Keys(Direct(granted.uid, "nil")) = {"x"}
    /\ Keys(RoleDerived(ListRoleByUser(granted.uid), "nil")) = {"y"}

\* ------------------------------------------------- gate and parser properties
Rejections == {a \in answers : ~a.next}

\* C19: whatever the reason of a rejection by JWTAuthMiddleware (missing or
\* unparseable token, signature or algorithm, claim shape, unknown identity,
\* expiry, logout, store error), the answer is the same 401 with the message
\* "request not authorized", and the handler behind the gate does not run
C19_CauseHidden ==
    /\ \A a \in answers : a.cause # "" => ~a.next
    /\ \A a, b \in Rejections : a.status = b.status /\ a.message = b.message
    /\ \A a \in Rejections : a.status = 401 /\ a.message = "request not authorized"
C19_Witness ==
    \E a, b, c \in Rejections :
        /\ a.cause = "issued before logout"
        /\ b.cause = "store error"
        /\ c.cause \in {"missing token", "signature or algorithm", "claim shape",
                        "unknown identity", "expired"}

\* C20: jwtGetAccessMetadata and jwtGetRefreshMetadata return metadata only
\* for a token of the HMAC family whose signature verifies under the key of
\* its role; an unsigned token and a token of another family are rejected by
\* jwt.Parse, before a claim is read
C20_SignatureGate ==
    LET t == meta.tok
        r == meta.r
    IN  /\ meta.role = "access" /\ ~r.err
           => t.alg \in {"HS256", "HS384", "HS512"} /\ t.key = accessKey
        /\ meta.role = "refresh" /\ ~r.err
           => t.alg \in {"HS256", "HS384", "HS512"} /\ t.key = refreshKey
        /\ meta.role # "" /\ (t.alg \notin {"HS256", "HS384", "HS512"} \/ t.key = "")
           => r.err /\ r.reason = "jwt.Parse"
C20_Witness ==
    /\ meta.role = "refresh"
    /\ ~meta.r.err
    /\ meta.tok.alg = "HS512"
    /\ meta.r.authUUID = meta.tok.auth_uuid

\* the integer a string spells in decimal: an optional sign and then digits
\* only, one at least
IsDigit(ch) == ch \in {"0", "1", "2", "7"}
Unsigned(str) == IF str # <<>> /\ Head(str) \in {"-", "+"} THEN Tail(str) ELSE str
Numeric(str) ==
    /\ Unsigned(str) # <<>>
    /\ \A i \in 1..Len(Unsigned(str)) : IsDigit(Unsigned(str)[i])
RECURSIVE Pow10(_)
Pow10(n) == IF n = 0 THEN 1 ELSE 10 * Pow10(n - 1)
RECURSIVE Spelled(_)
Spelled(digits) ==
    IF digits = <<>> THEN 0
    ELSE Digit(Head(digits)) * Pow10(Len(digits) - 1) + Spelled(Tail(digits))
IntegerOf(str) == IF Head(str) = "-" THEN -Spelled(Unsigned(str)) ELSE Spelled(Unsigned(str))
\* the whole part of a number kept in tenths
WholePart(tenths) ==
    CHOOSE n \in -3..3 :
        /\ (IF n >= 0 THEN n ELSE -n) * 10 <= (IF tenths >= 0 THEN tenths ELSE -tenths)
        /\ (IF tenths >= 0 THEN tenths ELSE -tenths) < ((IF n >= 0 THEN n ELSE -n) + 1) * 10
        /\ (n >= 0) = (tenths >= 0 \/ -tenths < 10)
\* what the claim expects of one integer claim
Readable(v) == v.type = "float64" \/ (v.type = "string" /\ Numeric(v.str))
Expected(v) == IF v.type = "float64" THEN WholePart(v.tenths) ELSE IntegerOf(v.str)

\* C21: for each of user_id, created_at and expires_at, jwtParseIntFromClaims
\* returns the integer value of a claim that is a native number or a string
\* spelling an integer, and an error for a claim that is absent, of another
\* type or a string spelling no integer; auth_uuid must be a string; any such
\* error makes the metadata call fail with no metadata, and without one the
\* metadata carries the values read
C21_ClaimExtraction ==
    LET c == claimed.claims
        ints == {"user_id", "created_at", "expires_at"}
        bad == c["auth_uuid"].type # "string" \/ \E k \in ints : ~Readable(c[k])
    IN  /\ \A k \in ints :
               /\ Readable(c[k]) => jwtParseIntFromClaims(c, k) = IntResult(Expected(c[k]), "")
               /\ ~Readable(c[k]) => /\ jwtParseIntFromClaims(c, k).err # ""
                                     /\ jwtParseIntFromClaims(c, k).value = 0
        /\ claimed.done /\ bad => claimed.r = ClaimsErr
        /\ claimed.done /\ ~bad =>
               /\ ~claimed.r.err
               /\ claimed.r.authUUID = c["auth_uuid"].str
               /\ claimed.r.userID.low = Expected(c["user_id"])
               /\ claimed.r.createdAt = FromUnix(Expected(c["created_at"]))
               /\ claimed.r.expiresAt = FromUnix(Expected(c["expires_at"]))
C21_Witness ==
    /\ claimed.done
    /\ ~claimed.r.err
    /\ claimed.claims["user_id"] = JSONString(<<"1", "7">>)
    /\ claimed.claims["created_at"] = JSONString(<<"-", "1">>)
    /\ claimed.claims["expires_at"] = JSONNumber(20)
    /\ claimed.r.userID.low = 17
    /\ claimed.r.createdAt = FromUnix(-1)

\* the association rows of a table, as a set
Associations(table) == {table[i] : i \in 1..Len(table)}
\* the last call was CreatePermission
CalledCreatePermission == created.op = "CreatePermission"

\* C22: CreatePermission is transactional: when a step fails (the lookup or
\* the insert of the permission, the lookup of a listed role key, the insert
\* of an association, the commit) the call returns an error and the store
\* holds no permission and no association written by the call; when it
\* returns no error the permission and an association to every listed role
\* are in the store
C22_Transactional ==
    CalledCreatePermission =>
        /\ created.fail.step \in {"GetPermissionByKey", "Commit"} => created.err # ""
        /\ (\E i \in 1..Len(created.roleKeys) :
                ~HasKey(created.before.roles, created.roleKeys[i])) => created.err # ""
        /\ created.err # "" =>
               /\ permissions = created.before.permissions
               /\ rolePermissions = created.before.rolePermissions
        /\ created.err = "" =>
               /\ HasKey(permissions, created.key)
               /\ \A i \in 1..Len(created.roleKeys) :
                      /\ HasKey(roleRows, created.roleKeys[i])
                      /\ [RoleID |-> ByKey(roleRows, created.roleKeys[i]).ID,
                          PermissionID |-> ByKey(permissions, created.key).ID]
                            \in Associations(rolePermissions)
C22_Witness ==
    /\ CalledCreatePermission
    /\ created.err # ""
    /\ ~HasKey(created.before.permissions, created.key)
    /\ created.roleKeys = <<"r1", "r2">>
    /\ created.fail = [step |-> "saveRolePermission", at |-> 2]
    /\ ~HasKey(permissions, created.key)

\* C24: CreatePermission on a key that exists already is a no-op: with no
\* store failure and listed roles that exist, the permission table and the
\* association table are after the call what they were before it, and no
\* error is returned
C24_ExistingKeyNoOp ==
    /\ CalledCreatePermission
    /\ HasKey(created.before.permissions, created.key)
    /\ created.fail = NoFailure
    /\ \A i \in 1..Len(created.roleKeys) : HasKey(created.before.roles, created.roleKeys[i])
    => /\ created.err = ""
       /\ permissions = created.before.permissions
       /\ rolePermissions = created.before.rolePermissions

\* the session of an issued pair is no longer in the Login table
SessionGone(p) == \A l \in logins : l.UUID # p.access.auth_uuid
\* the old session of a refresh that was answered with a new pair
RotatedAway(p) == \E r \in rotated : r.old = p.refresh

\* C23: there is no per-token blacklist. For an issued access token the gate
\* decides by the signed expiry, the current time and the logged-out-at of the
\* identity row alone, whatever the Login table holds; and a token that passes
\* the gate keeps passing it over every step that neither moves the time past
\* its expiry nor writes the logged-out-at of its identity, the steps that
\* rotate, delete or sweep its session included
C23_NoBlacklist ==
    /\ [](\A p \in pairs :
            PassesGate(p.access)
            <=> /\ NotBefore(FromUnix(p.access.expires_at), now)
                /\ \/ users[p.uid].LoggedOutAt = Nil
                   \/ NotBefore(FromUnix(p.access.created_at), users[p.uid].LoggedOutAt))
    /\ [][\A p \in pairs :
            /\ PassesGate(p.access)
            /\ NotBefore(FromUnix(p.access.expires_at), now')
            /\ users'[p.uid].LoggedOutAt = users[p.uid].LoggedOutAt
            => PassesGate(p.access)']_vars
C23_Witness ==
    \E p \in pairs :
        /\ p.access \in handed
        /\ RotatedAway(p)
        /\ SessionGone(p)
        /\ PassesGate(p.access)

\* the identity a request carries: its token is signed under the access key,
\* its claims are of the right shape, they name a stored user and the lookup
\* of that user did not fail
Identified ==
    /\ required.mw # ""
    /\ required.tok.alg \in {"HS256", "HS384", "HS512"}
    /\ required.tok.key = accessKey
    /\ required.tok.user_id \in DOMAIN users
    /\ required.userOK
Identity == users[required.tok.user_id]
Held == Keys(GetUserPermissions(Identity, "nil").permissions)
Listed == {required.permissionKeys[i] : i \in 1..Len(required.permissionKeys)}
Wanted == IF required.mw = "all" THEN Listed \subseteq Held ELSE Listed \cap Held # {}

\* C25 as stated: for a non-admin identity the next handler runs if and only
\* if every listed key (all) or one listed key at least (any) is among the
\* keys of GetUserPermissions(identity, nil), and the request is aborted with
\* 403 otherwise; an admin is always admitted; a request without an identity
\* is aborted with 401
C25_PermissionGateStrict ==
    /\ required.mw # "" /\ ~Identified
       => required.a = Answer(401, "request not authorized", FALSE)
    /\ Identified /\ Identity.Admin => required.a.next
    /\ Identified /\ ~Identity.Admin
       => /\ required.a.next <=> Wanted
          /\ ~required.a.next => required.a.status = 403

\* C25 as amended: the same, but a non-admin request whose GetUserPermissions
\* call fails is aborted with 500 whatever the identity holds
C25_PermissionGate ==
    /\ required.mw # "" /\ ~Identified
       => required.a = Answer(401, "request not authorized", FALSE)
    /\ Identified /\ Identity.Admin => required.a.next
    /\ Identified /\ ~Identity.Admin /\ ~required.permOK
       => ~required.a.next /\ required.a.status = 500
    /\ Identified /\ ~Identity.Admin /\ required.permOK
       => /\ required.a.next <=> Wanted
          /\ ~required.a.next => required.a.status = 403
C25_Witness ==
    /\ Identified /\ ~Identity.Admin /\ required.permOK
    /\ required.mw = "all"
    /\ Len(required.permissionKeys) = 2
    /\ Listed \cap Held # {}
    /\ ~(Listed \subseteq Held)
    /\ required.a.status = 403

\* the stored identity a login request names, by its email without regard to
\* case, with the verified flag set and the password of the request
Entitled(email, password) ==
    \E id \in DOMAIN users :
        /\ (users[id].Email = email \/ <<users[id].Email, email>> \in {<<"a@x", "A@x">>, <<"A@x", "a@x">>})
        /\ users[id].Verified
        /\ users[id].Password = <<id, password>>
\* a step of the login handler for these credentials that goes on to CreateAuth
GoesOn(email, password) == LoginBegin(email, password) /\ req' # req

\* C26: the login handler goes on to CreateAuth only for the email of a stored
\* identity whose verified flag is set and whose password matches; a Login row
\* and a token pair are made only by the CreateAuth call of such a request,
\* tokens are returned only from such a pair, and every other step of the
\* route leaves rows, pairs and returned tokens as they were
C26_LoginIssues ==
    /\ [][\A e \in EmailInputs, p \in PasswordInputs :
            GoesOn(e, p) => Entitled(e, p)]_vars
    /\ [](\A s \in Slots : req[s].kind = "login"
            => users[req[s].u.ID] = req[s].u /\ req[s].u.Verified)
    /\ [](\A l \in logins : users[l.UserID].Verified)
    /\ [](\A p \in pairs : users[p.uid].Verified)
    /\ [](\A t \in handed : \E p \in pairs : t \in {p.access, p.refresh})
    /\ [][~(logins' \subseteq logins) \/ pairs' # pairs
          => \E s \in Slots : req[s].kind = "login" /\ req[s].pc = "createAuth"
                              /\ req'[s].pc # "createAuth"]_vars
    /\ [][handed' # handed
          => \E s \in Slots : req[s].kind = "login" /\ req[s].pc = "afterAuth"
                              /\ req'[s] = Idle]_vars
C26_Witness ==
    /\ \E id \in Users : ~users[id].Verified
    /\ \E p \in pairs : p.access \in handed /\ p.uid = 2
    /\ started = 3
    /\ Cardinality(logins) = 1

\* the identities signup created
SignedUp == DOMAIN users \ Users
\* the verification mail of a row was sent
Mailed(u) == \E m \in outbox : m.uid = u.ID /\ m.to = u.Email

\* C27: signup is all-or-nothing. The user table changes only in the step that
\* commits a signup transaction, and then to the row of that transaction,
\* whose verification mail was sent; a step in which a store call or the mail
\* fails, the commit included, leaves the table as it was; and every identity
\* signup created is one whose verification mail was sent
C27_SignupAllOrNothing ==
    /\ [][users' # users
          => \E s \in Slots :
                /\ req[s].kind = "signup" /\ req[s].pc = "commit" /\ req'[s] = Idle
                /\ Mailed(req[s].u)
                /\ users' = [id \in DOMAIN users \cup {req[s].u.ID} |->
                               IF id = req[s].u.ID THEN req[s].u ELSE users[id]]]_vars
    /\ [][fails' # fails => users' = users]_vars
    /\ [][\A s \in Slots : req[s].kind = "signup" /\ req[s].pc # "commit"
                           /\ req'[s] = Idle => users' = users]_vars
    /\ [](\A id \in SignedUp : Mailed(users[id]))
C27_Witness ==
    /\ fails = 1
    /\ nextUserID = Cardinality(Users) + 3
    /\ Cardinality(SignedUp) = 1
    /\ \A s \in Slots : req[s] = Idle

\* C28: after any interleaving of signup requests the store never holds two
\* identities whose emails are equal when letter case is ignored
C28_EmailsUnique ==
    \A a, b \in DOMAIN users :
        a # b => users[a].Email # users[b].Email
                 /\ <<users[a].Email, users[b].Email>>
                       \notin {<<"a@x", "A@x">>, <<"A@x", "a@x">>, <<"c@x", "C@x">>,
                               <<"C@x", "c@x">>}

\* a token that opens for the row u and carries the email of u
OpensFor(t, u) ==
    /\ t.envelope = "std-json" /\ t.payloadEnc = "url"
    /\ u # NoUser /\ t.UserID = u.ID
    /\ t.len >= NonceSize + TagSize
    /\ t.sealKey = u.SecretKey
    /\ t.plaintext = u.Email
GatedKinds == {"signupVerify", "recoverReset"}

\* C29: signupVerify sets the verified flag and recoverReset replaces the
\* password only on a token that decodes without error for the identity and
\* whose payload is the email of the identity; every other request leaves the
\* user rows as they were and is answered with an error status, and no
\* request makes the handler panic
C29_SecretGated ==
    /\ [](\A s \in Slots : req[s].kind \in GatedKinds => OpensFor(req[s].secret, req[s].u))
    /\ [][\A id \in DOMAIN users :
            \/ users'[id].Verified # users[id].Verified
            \/ users'[id].Password # users[id].Password
            => \E s \in Slots : /\ req[s].kind \in GatedKinds /\ req[s].pc = "saveUser"
                                /\ req[s].u.ID = id /\ req'[s] = Idle]_vars
    /\ [][parsed' # parsed /\ ~OpensFor(parsed'.tok, parsed'.r.u)
          => users' = users /\ req' = req /\ parsed'.status \in {400, 500}]_vars
    /\ [](~parsed.panic)

\* an entry whose expiration time has passed
Expired(entry, t) == entry.expires < t

\* C30: GetLocal never returns an item whose expiration time has passed, and
\* when SetLocal or GetLocal has completed no expired entry is left in the
\* cache
C30_CacheExpiry ==
    /\ got.op = "GetLocal" /\ got.ok => ~Expired(got.entry, got.at)
    /\ got.op # "" /\ got.at = now => \A k \in DOMAIN entries : ~Expired(entries[k], now)

\* a key of the cache whose entry has not expired
Fresh(key) == key \in DOMAIN entries /\ ~Expired(entries[key], now)

\* C31: a GET whose key is present and unexpired is answered with the cached
\* body and content type and the next handler is not run; on a miss the next
\* handler runs and its response is stored under the key with the given TTL;
\* a request that is not a GET goes on and the cache is neither read nor
\* written
C31_ResponseCache ==
    /\ [][\A s \in Slots, key \in Paths, ttl \in TTLs :
            LocalCacheMiddleware(s, "GET", key, ttl) =>
                IF Fresh(key)
                THEN /\ served' = Served("GET", key, 200, entries[key].item, FALSE)
                     /\ flights' = flights
                ELSE /\ served'.next /\ served'.status = 0
                     /\ flights'[s] = Flight(key, ttl)]_vars
    /\ [][\A s \in Slots, resp \in Responses :
            LocalCacheMiddlewareStore(s, resp) =>
                /\ flights[s].key \in DOMAIN entries'
                /\ entries'[flights[s].key] =
                       cacheEntry(flights[s].key, now + flights[s].ttl, resp)]_vars
    /\ [][\A s \in Slots, key \in Paths, ttl \in TTLs :
            LocalCacheMiddleware(s, "POST", key, ttl) =>
                /\ served'.next /\ served'.status = 0
                /\ entries' = entries /\ heap' = heap /\ got' = got]_vars

\* C32: the logged-out-at of an identity never moves backwards and never
\* returns to unset (Nil is below every instant), whichever handlers that
\* save the identity row interleave with logout
C32_LoggedOutMonotone ==
    [][\A id \in DOMAIN users :
          id \in DOMAIN users' /\ users'[id].LoggedOutAt >= users[id].LoggedOutAt]_vars

\* no Login row carries the auth_uuid of the token
NoSession(tok) == \A l \in logins : l.UUID # tok.auth_uuid

\* C33: a logout whose access token passed the gate but whose Login row is
\* gone is answered 401; the step deletes no row, leaves every identity row
\* (and so the logged-out-at) as it was and ends the handler
C33_LogoutNeedsSession ==
    /\ [][\A s \in Slots :
            LogoutGetLogin(s) /\ NoSession(req[s].tok) =>
                /\ refused' = refused \cup {[uuid |-> req[s].tok.auth_uuid,
                                             uid |-> req[s].u.ID, status |-> 401]}
                /\ req'[s] = Idle
                /\ logins' = logins /\ users' = users
                /\ deleted' = deleted /\ logouts' = logouts]_vars
    /\ [](\A r \in refused : r.status = 401)
    /\ [](\A s \in Slots :
            req[s].kind = "logout" /\ req[s].pc \in {"deleteLogin", "saveUser"}
            => req[s].login.UUID = req[s].tok.auth_uuid)
C33_Witness ==
    \E r \in refused, p \in pairs :
        /\ p.access.auth_uuid = r.uuid /\ p.uid = r.uid
        /\ RotatedAway(p) /\ SessionGone(p)
        /\ users[r.uid].LoggedOutAt = Nil
        /\ r.status = 401

\* the steps of a logout that write to the store
LogoutWrites(s) == LogoutDeleteLogin(s, TRUE) \/ LogoutSaveUser(s, TRUE)

\* C34: a logout removes the Login row of the presented token's auth_uuid and
\* no other row, and of the identity rows it changes the caller's
\* logged-out-at and nothing else; the refresh tokens of other sessions
\* validate after its steps as before
C34_LogoutFrame ==
    /\ [][\A s \in Slots : LogoutDeleteLogin(s, TRUE) =>
            /\ logins' = {l \in logins : l.UUID # req[s].tok.auth_uuid}
            /\ users' = users]_vars
    /\ [][\A s \in Slots : LogoutSaveUser(s, TRUE) =>
            /\ users' = [users EXCEPT ![req[s].u.ID].LoggedOutAt = now]
            /\ logins' = logins]_vars
    /\ [][\A s \in Slots : LogoutWrites(s) =>
            \A p \in pairs :
                /\ p.refresh.auth_uuid # req[s].tok.auth_uuid
                /\ ValidatesRefresh(p.refresh)
                => ValidatesRefresh(p.refresh)']_vars

\* the login or refresh request of slot s ends in this step with an error
\* answer: no token of the request is handed to the client
AnswersError(s) ==
    /\ req[s].kind \in {"login", "refresh"}
    /\ req'[s] = Idle
    /\ req[s].access \notin handed'

\* C35: a login or refresh request that is answered with an error status has
\* left the Login table as it was: the step that answers changes no row, no
\* row written by the request remains, and a request turned away at its
\* first step has written nothing
C35_FailedLeavesStore ==
    /\ [][\A s \in Slots : AnswersError(s) =>
            /\ logins' = logins
            /\ \A l \in logins' : l.UUID # req[s].access.auth_uuid]_vars
    /\ [][\A e \in EmailInputs, p \in PasswordInputs :
            LoginBegin(e, p) /\ req' = req => logins' = logins]_vars
    /\ [][\A tok \in Presentable :
            RefreshRequest(tok) /\ req' = req => logins' = logins]_vars

\* C36: with different access and refresh keys, the access token of every
\* pair CreateAuth returned is rejected by JWTValidateRefreshToken and its
\* refresh token is rejected by the access gate, at every time, although
\* the two tokens carry the same claim names, auth_uuid and user_id
C36_RolesNotInterchangeable ==
    accessKey # refreshKey =>
        \A p \in pairs :
            /\ ~ValidatesRefresh(p.access)
            /\ ~PassesGate(p.refresh)
            /\ DOMAIN p.access = DOMAIN p.refresh
            /\ p.access.auth_uuid = p.refresh.auth_uuid
            /\ p.access.user_id = p.refresh.user_id
C36_Witness ==
    \E p \in pairs :
        /\ {p.access, p.refresh} \subseteq handed
        /\ PassesGate(p.access) /\ ValidatesRefresh(p.refresh)
        /\ ~ValidatesRefresh(p.access) /\ ~PassesGate(p.refresh)

\* the handler of the given kind accepts the secret token of a request: the
\* request goes on to its save
Accepted(s, kind) ==
    req[s] = Idle /\ req'[s].kind = kind /\ req'[s].pc = "saveUser"
\* tokens that only signup, and tokens that only recover has issued
OnlySignup == SignupIssued \ secrets
OnlyRecover == secrets \ SignupIssued

\* C37: a token issued by signup is accepted by signupVerify only and a token
\* issued by recover by recoverReset only; a signup token presented to
\* recoverReset does not change the password, a recovery token presented to
\* signupVerify does not mark the identity verified
C37_FlowBound ==
    /\ [][\A s \in Slots :
            /\ Accepted(s, "recoverReset") => req'[s].secret \notin OnlySignup
            /\ Accepted(s, "signupVerify") => req'[s].secret \notin OnlyRecover]_vars
    /\ [][\A s \in Slots :
            RecoverResetSaveUser(s, TRUE) /\ req[s].secret \in OnlySignup
            => users'[req[s].u.ID].Password = users[req[s].u.ID].Password]_vars
    /\ [][\A s \in Slots :
            SignupVerifySaveUser(s, TRUE) /\ req[s].secret \in OnlyRecover
            => users'[req[s].u.ID].Verified = users[req[s].u.ID].Verified]_vars

====
